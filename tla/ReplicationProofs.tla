------------------------- MODULE ReplicationProofs -------------------------
(***************************************************************************)
(* What holds of the block store and of the node's garbage collection for  *)
(* any blocks, roots, tasks and quota.                                     *)
(***************************************************************************)
EXTENDS Replication, FiniteSetTheorems, SequenceTheorems, TLAPS

-----------------------------------------------------------------------------
(* Taking an element out of a sequence keeps the others, once each.        *)
LEMMA RemoveAtSeq ==
  ASSUME NEW S, NEW s \in Seq(S), NEW i \in 1..Len(s)
  PROVE  /\ RemoveAt(s, i) \in Seq(S)
         /\ Len(RemoveAt(s, i)) = Len(s) - 1
         /\ \A n \in 1..Len(s) - 1 :
              RemoveAt(s, i)[n] = IF n < i THEN s[n] ELSE s[n + 1]
<1> DEFINE u == SubSeq(s, 1, i - 1)
           v == SubSeq(s, i + 1, Len(s))
<1>1. /\ u \in Seq(S) /\ Len(u) = i - 1
      /\ \A n \in 1..(i - 1) : u[n] = s[n]
  <2>1. 1 \in 1..Len(s) + 1 /\ i - 1 \in 0..Len(s)
    BY LenProperties
  <2> QED
    BY <2>1, SubSeqProperties, LenProperties
<1>2. /\ v \in Seq(S) /\ Len(v) = Len(s) - i
      /\ \A n \in 1..(Len(s) - i) : v[n] = s[n + i]
  <2>1. i + 1 \in 1..Len(s) + 1 /\ Len(s) \in 0..Len(s)
    BY LenProperties
  <2> QED
    BY <2>1, SubSeqProperties, LenProperties
<1>3. RemoveAt(s, i) = u \o v
  BY DEF RemoveAt
<1>4. Len(s) \in Nat /\ i \in 1..Len(s)
  BY LenProperties
<1> HIDE DEF u, v
<1>5. /\ u \o v \in Seq(S)
      /\ Len(u \o v) = Len(s) - 1
      /\ \A n \in 1..Len(s) - 1 :
           (u \o v)[n] = IF n <= i - 1 THEN u[n] ELSE v[n - (i - 1)]
  <2>1. /\ u \o v \in Seq(S)
        /\ Len(u \o v) = Len(u) + Len(v)
        /\ \A n \in 1..Len(u) + Len(v) :
             (u \o v)[n] = IF n <= Len(u) THEN u[n] ELSE v[n - Len(u)]
    BY <1>1, <1>2, ConcatProperties
  <2>2. Len(u) = i - 1 /\ Len(v) = Len(s) - i /\ Len(u) + Len(v) = Len(s) - 1
    BY <1>1, <1>2, <1>4
  <2> QED
    BY <2>1, <2>2
<1>6. ASSUME NEW n \in 1..Len(s) - 1
      PROVE  (u \o v)[n] = IF n < i THEN s[n] ELSE s[n + 1]
  <2>1. CASE n < i
    BY <1>1, <1>4, <1>5, <2>1
  <2>2. CASE ~(n < i)
    <3>1. n - (i - 1) \in 1..(Len(s) - i) /\ n - (i - 1) + i = n + 1
      BY <1>4, <2>2
    <3>2. v[n - (i - 1)] = s[n - (i - 1) + i]
      BY <1>2, <3>1
    <3> QED
      BY <1>4, <1>5, <2>2, <3>1, <3>2
  <2> QED
    BY <2>1, <2>2
<1> QED
  BY <1>3, <1>5, <1>6

(* The pins without a root: records still, and no record of that root.     *)
LEMMA WithoutRootPins ==
  ASSUME TypeOK, NEW r \in Roots
  PROVE  /\ WithoutRoot(r) \in Seq(PinRecord)
         /\ \A m, n \in 1..Len(WithoutRoot(r)) :
              WithoutRoot(r)[m].root = WithoutRoot(r)[n].root => m = n
         /\ \A n \in 1..Len(WithoutRoot(r)) : WithoutRoot(r)[n].root # r
<1>1. CASE Position(r) = {}
  BY <1>1 DEF WithoutRoot, Position, TypeOK
<1>2. CASE Position(r) # {}
  <2> DEFINE k == CHOOSE n \in Position(r) : TRUE
  <2>1. k \in Position(r)
    BY <1>2
  <2>2. k \in 1..Len(pins) /\ pins[k].root = r
    BY <2>1 DEF Position
  <2>3. WithoutRoot(r) = RemoveAt(pins, k)
    BY <1>2 DEF WithoutRoot
  <2>4. pins \in Seq(PinRecord) /\ Len(pins) \in Nat
    BY LenProperties DEF TypeOK
  <2> HIDE DEF k
  <2>5. /\ RemoveAt(pins, k) \in Seq(PinRecord)
        /\ Len(RemoveAt(pins, k)) = Len(pins) - 1
        /\ \A n \in 1..Len(pins) - 1 :
             RemoveAt(pins, k)[n] = IF n < k THEN pins[n] ELSE pins[n + 1]
    BY <2>2, <2>4, RemoveAtSeq
  <2>6. \A m, n \in 1..Len(pins) : pins[m].root = pins[n].root => m = n
    BY DEF TypeOK
  <2> DEFINE w == RemoveAt(pins, k)
             from(n) == IF n < k THEN n ELSE n + 1
  <2>7. \A n \in 1..Len(w) :
          from(n) \in 1..Len(pins) /\ from(n) # k /\ w[n] = pins[from(n)]
    BY <2>2, <2>4, <2>5
  <2>8. \A m, n \in 1..Len(w) : from(m) = from(n) => m = n
    BY <2>2, <2>4, <2>5
  <2> HIDE DEF w, from
  <2>9. \A m, n \in 1..Len(w) : w[m].root = w[n].root => m = n
    BY <2>6, <2>7, <2>8
  <2>10. \A n \in 1..Len(w) : w[n].root # r
    BY <2>2, <2>6, <2>7
  <2> QED
    BY <2>3, <2>5, <2>9, <2>10 DEF w
<1> QED
  BY <1>1, <1>2

-----------------------------------------------------------------------------
(* The types are kept by every step.                                       *)
LEMMA InitType == Init => TypeOK
BY StoreAssumption DEF Init, StoreInit, TypeOK, StoreTypeOK

LEMMA PinType ==
  ASSUME TypeOK, NEW r \in Roots, NEW bs \in SUBSET Blocks, Pin(r, bs)
  PROVE  TypeOK'
<1> DEFINE w == WithoutRoot(r)
           p == [root |-> r, blocks |-> bs]
<1>1. /\ w \in Seq(PinRecord)
      /\ \A m, n \in 1..Len(w) : w[m].root = w[n].root => m = n
      /\ \A n \in 1..Len(w) : w[n].root # r
  BY WithoutRootPins
<1>2. p \in PinRecord /\ p.root = r
  BY DEF PinRecord
<1> HIDE DEF w, p
<1>3. /\ Append(w, p) \in Seq(PinRecord)
      /\ Len(Append(w, p)) = Len(w) + 1
      /\ \A n \in 1..Len(w) : Append(w, p)[n] = w[n]
      /\ Append(w, p)[Len(w) + 1] = p
  BY <1>1, <1>2, AppendProperties
<1>4. pins' = Append(w, p)
  BY DEF Pin, w, p
<1>5. pins' \in Seq(PinRecord)
  BY <1>3, <1>4
<1>6. \A m, n \in 1..Len(pins') : pins'[m].root = pins'[n].root => m = n
  BY <1>1, <1>2, <1>3, <1>4, LenProperties
<1>7. /\ StoreTypeOK'
      /\ phase' \in {"seeding", "refreshing"}
      /\ gc' \in {"off", "evicting", "listing", "sweeping", "deleting"}
      /\ evicted' \in Nat
      /\ listed' \in SUBSET Blocks
      /\ doomed' \in Blocks
  BY DEF TypeOK, StoreTypeOK, Pin, storeVars
<1> QED
  BY <1>5, <1>6, <1>7 DEF TypeOK

LEMMA EvictType ==
  ASSUME TypeOK, EvictOldest
  PROVE  TypeOK'
<1>1. /\ Tail(pins) \in Seq(PinRecord)
      /\ Len(Tail(pins)) = Len(pins) - 1
      /\ \A n \in 1..Len(Tail(pins)) : Tail(pins)[n] = pins[n + 1]
  BY HeadTailProperties DEF TypeOK, EvictOldest
<1>2. \A m, n \in 1..Len(Tail(pins)) :
        Tail(pins)[m].root = Tail(pins)[n].root => m = n
  BY <1>1, LenProperties DEF TypeOK
<1> QED
  BY <1>1, <1>2 DEF TypeOK, StoreTypeOK, EvictOldest, storeVars

LEMMA StoreType ==
  ASSUME StoreTypeOK, NEW t \in Tasks,
         (\E b \in Blocks : PutChecks(t, b)) \/ PutSteps(t) \/ TaskCrashes(t)
  PROVE  StoreTypeOK'
BY StoreAssumption
DEF StoreTypeOK, PutChecks, PutSteps, PutOpens, PutWrites, TaskCrashes

LEMMA NextType == TypeOK /\ [Next]_vars => TypeOK'
<1> SUFFICES ASSUME TypeOK, [Next]_vars
             PROVE  TypeOK'
  OBVIOUS
<1>1. CASE StoreNext /\ UNCHANGED nodeVars
  <2>1. StoreTypeOK'
    BY <1>1, StoreType DEF StoreNext, TypeOK
  <2> QED
    BY <1>1, <2>1 DEF TypeOK, nodeVars
<1>2. ASSUME NEW r \in Roots, NEW bs \in SUBSET Blocks, Pin(r, bs)
      PROVE  TypeOK'
  BY <1>2, PinType
<1>3. CASE EvictOldest
  BY <1>3, EvictType
<1>4. CASE StartRefreshing \/ RefreshCollects \/ CollectIfOverQuota \/ EvictionEnds
           \/ GcLists \/ (\E b \in Blocks : GcReads(b)) \/ GcEnds \/ GcFails
  BY <1>4 DEF TypeOK, StoreTypeOK, storeVars, StartRefreshing, RefreshCollects,
    CollectIfOverQuota, EvictionEnds, GcLists, GcReads, GcEnds, GcFails
<1>5. CASE GcDeletes
  BY <1>5 DEF TypeOK, StoreTypeOK, GcDeletes, Unlink
<1>6. CASE NodeRestarts
  <2>1. crashes' \in 0..MaxCrashes
    BY <1>6, StoreAssumption DEF TypeOK, StoreTypeOK, NodeRestarts
  <2>2. pins' \in Seq(PinRecord) /\ Len(pins') = 0
    BY <1>6, EmptySeq DEF NodeRestarts
  <2> QED
    BY <1>6, <2>1, <2>2 DEF TypeOK, StoreTypeOK, NodeRestarts
<1>7. CASE UNCHANGED vars
  BY <1>7 DEF TypeOK, StoreTypeOK, vars, storeVars, nodeVars
<1> QED
  BY <1>1, <1>2, <1>3, <1>4, <1>5, <1>6, <1>7 DEF Next, NodeNext, GcStep

(* Every variable of the store and of the node keeps its type, and the     *)
(* pins stay a map: one record for a root, whatever is pinned again.       *)
THEOREM TypeCorrect == Spec => []TypeOK
BY InitType, NextType, PTL DEF Spec

-----------------------------------------------------------------------------
(* What is torn is torn for a reason: each step of a put that ends takes   *)
(* the tear with it, and a kill leaves it on record.                       *)
LEMMA InitTorn == Init => TornExplained
BY DEF Init, StoreInit, TornExplained

LEMMA NextTorn == TypeOK /\ TornExplained /\ [Next]_vars => TornExplained'
<1> SUFFICES ASSUME TypeOK, TornExplained, [Next]_vars
             PROVE  TornExplained'
  OBVIOUS
<1> USE DEF TornExplained, Writes
<1>1. ASSUME NEW t \in Tasks, NEW b \in Blocks, PutChecks(t, b)
      PROVE  TornExplained'
  BY <1>1 DEF PutChecks, TypeOK, StoreTypeOK
<1>2. ASSUME NEW t \in Tasks, PutOpens(t)
      PROVE  TornExplained'
  BY <1>2 DEF PutOpens, TypeOK, StoreTypeOK
<1>3. ASSUME NEW t \in Tasks, PutWrites(t)
      PROVE  TornExplained'
  BY <1>3 DEF PutWrites, TypeOK, StoreTypeOK
<1>4. ASSUME NEW t \in Tasks, TaskCrashes(t)
      PROVE  TornExplained'
  BY <1>4 DEF TaskCrashes, TypeOK, StoreTypeOK
<1>5. CASE GcDeletes
  BY <1>5 DEF GcDeletes, Unlink, TypeOK, StoreTypeOK
<1>6. CASE UNCHANGED <<files, job, linked, torn>>
  BY <1>6
<1>7. ASSUME NodeNext
      PROVE  GcDeletes \/ UNCHANGED <<files, job, linked, torn>>
  BY <1>7 DEF NodeNext, GcStep, Pin, StartRefreshing, RefreshCollects,
    CollectIfOverQuota, EvictOldest, EvictionEnds, GcLists, GcReads, GcEnds,
    GcFails, NodeRestarts, storeVars
<1> QED
  BY <1>1, <1>2, <1>3, <1>4, <1>5, <1>6, <1>7
  DEF Next, StoreNext, PutSteps, vars, storeVars

-----------------------------------------------------------------------------
(* gc deletes no pinned block.                                             *)
LEMMA InitDoomed == Init => DoomedUnpinned /\ GcRefreshes
BY DEF Init, DoomedUnpinned, GcRefreshes

LEMMA NextDoomed ==
  DoomedUnpinned /\ GcRefreshes /\ [Next]_vars => (DoomedUnpinned /\ GcRefreshes)'
<1> SUFFICES ASSUME DoomedUnpinned, GcRefreshes, [Next]_vars
             PROVE  DoomedUnpinned' /\ GcRefreshes'
  OBVIOUS
<1> USE DEF DoomedUnpinned, GcRefreshes
<1>1. CASE UNCHANGED nodeVars
  BY <1>1 DEF nodeVars, AllPinned
<1>2. ASSUME NEW r \in Roots, NEW bs \in SUBSET Blocks, Pin(r, bs)
      PROVE  DoomedUnpinned' /\ GcRefreshes'
  BY <1>2 DEF Pin
<1>3. ASSUME NEW b \in Blocks, GcReads(b)
      PROVE  DoomedUnpinned' /\ GcRefreshes'
  <2>1. AllPinned' = AllPinned /\ phase' = phase
    BY <1>3 DEF GcReads, AllPinned
  <2> QED
    BY <1>3, <2>1 DEF GcReads, Kept
<1>4. CASE StartRefreshing \/ RefreshCollects \/ CollectIfOverQuota \/ EvictOldest
           \/ EvictionEnds \/ GcLists \/ GcDeletes \/ GcEnds \/ GcFails \/ NodeRestarts
  BY <1>4 DEF StartRefreshing, RefreshCollects, CollectIfOverQuota, EvictOldest,
    EvictionEnds, GcLists, GcDeletes, GcEnds, GcFails, NodeRestarts
<1> QED
  BY <1>1, <1>2, <1>3, <1>4 DEF Next, NodeNext, GcStep, vars

-----------------------------------------------------------------------------
(* The quota.  A put that passes its check leaves room for itself, and one *)
(* that writes gives up the place it held among the puts that run.         *)
LEMMA WholeFinite == IsFiniteSet(Whole) /\ Used \in Nat
<1>1. Whole \subseteq Blocks
  BY DEF Whole
<1> QED
  BY <1>1, StoreAssumption, FS_Subset, FS_CardinalityType DEF Used

LEMMA PuttingFinite ==
  /\ IsFiniteSet(Putting)
  /\ Cardinality(Putting) \in Nat
  /\ Cardinality(Tasks) \in Nat
  /\ Cardinality(Putting) <= Cardinality(Tasks)
<1>1. Putting \subseteq Tasks
  BY DEF Putting
<1> QED
  BY <1>1, StoreAssumption, FS_Subset, FS_CardinalityType

LEMMA InitRoom == Init => RoomLeft
<1> SUFFICES ASSUME Init, Quota > 0, Unmetered = {}
             PROVE  Used + Cardinality(Putting) < Quota + Cardinality(Tasks)
  BY DEF RoomLeft
<1>1. Whole = {} /\ Putting = {}
  BY DEF Init, StoreInit, Whole, Putting
<1>2. Used = 0 /\ Cardinality(Putting) = 0
  BY <1>1, FS_EmptySet DEF Used
<1> QED
  BY <1>2, PuttingFinite, StoreAssumption

(* Fewer blocks and no more puts leave no less room.                       *)
LEMMA LessUsed ==
  ASSUME RoomLeft, Whole' \subseteq Whole, Putting' \subseteq Putting
  PROVE  RoomLeft'
<1>1. Used' <= Used /\ Used' \in Nat /\ Used \in Nat
  BY WholeFinite, FS_Subset, FS_CardinalityType DEF Used
<1>2. /\ Cardinality(Putting') <= Cardinality(Putting)
      /\ Cardinality(Putting') \in Nat
  BY PuttingFinite, FS_Subset, FS_CardinalityType
<1> QED
  BY <1>1, <1>2, PuttingFinite, StoreAssumption DEF RoomLeft

LEMMA NextRoom == TypeOK /\ RoomLeft /\ [Next]_vars => RoomLeft'
<1> SUFFICES ASSUME TypeOK, RoomLeft, [Next]_vars
             PROVE  RoomLeft'
  OBVIOUS
<1>1. ASSUME NEW t \in Tasks, NEW b \in Blocks, PutChecks(t, b)
      PROVE  RoomLeft'
  <2>1. Whole' = Whole /\ Used' = Used
    BY <1>1 DEF PutChecks, Whole, Used
  <2>2. Quota > 0 /\ Unmetered = {} => Used + 1 <= Quota
    BY <1>1 DEF PutChecks, FitsQuota
  <2>3. Putting' \subseteq Tasks
    BY DEF Putting
  <2>4. /\ Cardinality(Putting') <= Cardinality(Tasks)
        /\ Cardinality(Putting') \in Nat
    BY <2>3, StoreAssumption, FS_Subset, FS_CardinalityType
  <2> QED
    BY <2>1, <2>2, <2>4, WholeFinite, PuttingFinite, StoreAssumption DEF RoomLeft
<1>2. ASSUME NEW t \in Tasks, PutOpens(t)
      PROVE  RoomLeft'
  <2>1. Whole' \subseteq Whole /\ Putting' \subseteq Putting
    BY <1>2 DEF PutOpens, Whole, Putting, TypeOK, StoreTypeOK
  <2> QED
    BY <2>1, LessUsed
<1>3. ASSUME NEW t \in Tasks, PutWrites(t)
      PROVE  RoomLeft'
  <2>1. Whole' \subseteq Whole \cup {job[t].block}
    BY <1>3 DEF PutWrites, Whole, TypeOK, StoreTypeOK
  <2>2. t \in Putting /\ Putting' = Putting \ {t}
    BY <1>3 DEF PutWrites, Putting, TypeOK, StoreTypeOK
  <2>3. /\ IsFiniteSet(Whole \cup {job[t].block})
        /\ Cardinality(Whole \cup {job[t].block}) <= Used + 1
    <3>1. /\ IsFiniteSet(Whole \cup {job[t].block})
          /\ \/ Cardinality(Whole \cup {job[t].block}) = Cardinality(Whole)
             \/ Cardinality(Whole \cup {job[t].block}) = Cardinality(Whole) + 1
      BY WholeFinite, FS_AddElement
    <3>2. Cardinality(Whole) \in Nat
      BY WholeFinite, FS_CardinalityType
    <3>3. QED
      BY <3>1, <3>2 DEF Used
  <2>4. Used' <= Used + 1 /\ Used' \in Nat
    BY <2>1, <2>3, WholeFinite, FS_Subset, FS_CardinalityType DEF Used
  <2>5. Cardinality(Putting') = Cardinality(Putting) - 1
    BY <2>2, PuttingFinite, FS_RemoveElement
  <2> QED
    BY <2>4, <2>5, WholeFinite, PuttingFinite, StoreAssumption DEF RoomLeft
<1>4. ASSUME NEW t \in Tasks, TaskCrashes(t)
      PROVE  RoomLeft'
  <2>1. Whole' \subseteq Whole /\ Putting' \subseteq Putting
    BY <1>4 DEF TaskCrashes, Whole, Putting, TypeOK, StoreTypeOK
  <2> QED
    BY <2>1, LessUsed
<1>5. CASE GcDeletes
  <2>1. Whole' \subseteq Whole /\ Putting' \subseteq Putting
    BY <1>5 DEF GcDeletes, Unlink, Whole, Putting, TypeOK, StoreTypeOK
  <2> QED
    BY <2>1, LessUsed
<1>6. CASE UNCHANGED <<files, job>>
  <2>1. Whole' \subseteq Whole /\ Putting' \subseteq Putting
    BY <1>6 DEF Whole, Putting
  <2> QED
    BY <2>1, LessUsed
<1>7. ASSUME NodeNext
      PROVE  GcDeletes \/ UNCHANGED <<files, job>>
  BY <1>7 DEF NodeNext, GcStep, Pin, StartRefreshing, RefreshCollects,
    CollectIfOverQuota, EvictOldest, EvictionEnds, GcLists, GcReads, GcEnds,
    GcFails, NodeRestarts, storeVars
<1> QED
  BY <1>1, <1>2, <1>3, <1>4, <1>5, <1>6, <1>7
  DEF Next, StoreNext, PutSteps, vars, storeVars

-----------------------------------------------------------------------------
(* The inductive invariant.                                                *)
THEOREM InductiveInvariant == Spec => []IInv
<1>1. Init => IInv
  BY InitType, InitTorn, InitRoom, InitDoomed DEF IInv
<1>2. IInv /\ [Next]_vars => IInv'
  BY NextType, NextTorn, NextRoom, NextDoomed DEF IInv
<1> QED
  BY <1>1, <1>2, PTL DEF Spec

(* A file is torn only under a put that runs or by one that was killed.    *)
THEOREM TearsExplained == Spec => []TornExplained
<1>1. IInv => TornExplained
  BY DEF IInv
<1> QED
  BY <1>1, InductiveInvariant, PTL

(* Puts that race past the quota exceed it by less than their number.      *)
THEOREM QuotaOverrunBounded == Spec => []QuotaOverrun
<1>1. IInv => QuotaOverrun
  <2> SUFFICES ASSUME IInv, Quota > 0, Unmetered = {}
               PROVE  Used < Quota + Cardinality(Tasks)
    BY DEF QuotaOverrun
  <2> QED
    BY WholeFinite, PuttingFinite, StoreAssumption DEF IInv, RoomLeft
<1> QED
  BY <1>1, InductiveInvariant, PTL

(* No step takes a pinned block's file away.                               *)
THEOREM PinnedBlocksKept == Spec => PinnedKept
<1>1. ASSUME IInv, [Next]_vars, NEW b \in AllPinned, files[b] # "absent"
      PROVE  files'[b] # "absent"
  <2>1. b \in Blocks
    <3>1. PICK n \in 1..Len(pins) : b \in pins[n].blocks
      BY <1>1 DEF AllPinned
    <3>2. pins[n] \in PinRecord
      BY <1>1, LenProperties DEF IInv, TypeOK
    <3> QED
      BY <3>1, <3>2 DEF PinRecord
  <2>2. ASSUME NEW t \in Tasks, PutSteps(t)
        PROVE  files'[b] # "absent"
    BY <1>1, <2>1, <2>2 DEF PutSteps, PutOpens, PutWrites, IInv, TypeOK, StoreTypeOK
  <2>3. CASE GcDeletes
    <3>1. b # doomed
      BY <1>1, <2>3 DEF GcDeletes, IInv, DoomedUnpinned
    <3> QED
      BY <1>1, <2>1, <2>3, <3>1 DEF GcDeletes, Unlink, IInv, TypeOK, StoreTypeOK
  <2>4. CASE UNCHANGED files
    BY <1>1, <2>4
  <2>5. ASSUME NodeNext
        PROVE  GcDeletes \/ UNCHANGED files
    BY <2>5 DEF NodeNext, GcStep, Pin, StartRefreshing, RefreshCollects,
      CollectIfOverQuota, EvictOldest, EvictionEnds, GcLists, GcReads, GcEnds,
      GcFails, NodeRestarts, storeVars
  <2>6. ASSUME NEW t \in Tasks,
               (\E a \in Blocks : PutChecks(t, a)) \/ TaskCrashes(t)
        PROVE  UNCHANGED files
    BY <2>6 DEF PutChecks, TaskCrashes
  <2> QED
    BY <1>1, <2>2, <2>3, <2>4, <2>5, <2>6 DEF Next, StoreNext, vars, storeVars
<1>2. IInv /\ [Next]_vars =>
        [\A b \in AllPinned : files[b] # "absent" => files'[b] # "absent"]_vars
  BY <1>1
<1> QED
  BY <1>2, InductiveInvariant, PTL DEF Spec, PinnedKept
=============================================================================
