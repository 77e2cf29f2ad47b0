---------------------------- MODULE FetchProofs ----------------------------
(***************************************************************************)
(* What holds of the download, the extraction and the collection for any   *)
(* site, any quota, any number of programs that fetch it at the same time, *)
(* of kills and of blocks that were not asked for, and any bound of those. *)
(***************************************************************************)
EXTENDS Fetch, FiniteSetTheorems, SequenceTheorems, TLAPS

LinksTypeOK == links \in [Blocks -> SUBSET Blocks]

-----------------------------------------------------------------------------
(* What is below a set of blocks holds the set and is closed under links.  *)
LEMMA BelowHolds ==
  ASSUME LinksTypeOK, NEW S \in SUBSET Blocks
  PROVE  /\ S \subseteq Below(S)
         /\ Below(S) \in SUBSET Blocks
         /\ \A b \in Below(S) : links[b] \subseteq Below(S)
BY DEF LinksTypeOK, Below, Closed

(* It is the least such set.                                               *)
LEMMA BelowLeast ==
  ASSUME LinksTypeOK, NEW S \in SUBSET Blocks, NEW C \in SUBSET Blocks,
         S \subseteq C, \A b \in C : links[b] \subseteq C
  PROVE  Below(S) \subseteq C
BY DEF LinksTypeOK, Below, Closed

LEMMA BelowNothing ==
  ASSUME LinksTypeOK
  PROVE  Below({}) = {}
BY BelowLeast, {} \in SUBSET Blocks

LEMMA BelowGrows ==
  ASSUME LinksTypeOK, NEW T \in SUBSET Blocks, NEW S \in SUBSET Below(T)
  PROVE  Below(S) \subseteq Below(T)
<1>1. Below(T) \in SUBSET Blocks /\ \A b \in Below(T) : links[b] \subseteq Below(T)
  BY BelowHolds
<1>2. S \in SUBSET Blocks
  BY <1>1
<1> QED
  BY <1>1, <1>2, BelowLeast

(* What is below a queue is below its parts.                               *)
LEMMA BelowUnion ==
  ASSUME LinksTypeOK, NEW S \in SUBSET Blocks, NEW T \in SUBSET Blocks
  PROVE  Below(S \cup T) = Below(S) \cup Below(T)
<1> DEFINE U == S \cup T
           C == Below(S) \cup Below(T)
<1>1. /\ S \subseteq Below(S) /\ T \subseteq Below(T)
      /\ Below(S) \in SUBSET Blocks /\ Below(T) \in SUBSET Blocks
      /\ \A b \in Below(S) : links[b] \subseteq Below(S)
      /\ \A b \in Below(T) : links[b] \subseteq Below(T)
  BY BelowHolds
<1>2. U \in SUBSET Blocks /\ U \subseteq Below(U)
  BY BelowHolds
<1>3. S \in SUBSET Below(U) /\ T \in SUBSET Below(U)
  BY <1>2
<1>4. Below(S) \subseteq Below(U) /\ Below(T) \subseteq Below(U)
  BY <1>2, <1>3, BelowGrows
<1>5. /\ C \in SUBSET Blocks /\ U \subseteq C
      /\ \A b \in C : links[b] \subseteq C
  BY <1>1
<1> HIDE DEF C, U
<1>6. Below(U) \subseteq C
  BY <1>2, <1>5, BelowLeast
<1> QED
  BY <1>4, <1>6 DEF C, U

(* Below a block are the block and what is below its children.             *)
LEMMA BelowBlock ==
  ASSUME LinksTypeOK, NEW b \in Blocks
  PROVE  Below({b}) = {b} \cup Below(links[b])
<1> DEFINE C == {b} \cup Below(links[b])
<1>1. links[b] \in SUBSET Blocks /\ {b} \in SUBSET Blocks
  BY DEF LinksTypeOK
<1>2. /\ links[b] \subseteq Below(links[b])
      /\ Below(links[b]) \in SUBSET Blocks
      /\ \A c \in Below(links[b]) : links[c] \subseteq Below(links[b])
  BY <1>1, BelowHolds
<1>3. /\ C \in SUBSET Blocks /\ {b} \subseteq C
      /\ \A c \in C : links[c] \subseteq C
  BY <1>2
<1>4. Below({b}) \subseteq C
  BY <1>1, <1>3, BelowLeast
<1>5. b \in Below({b}) /\ links[b] \in SUBSET Below({b})
  BY <1>1, BelowHolds
<1>6. Below(links[b]) \subseteq Below({b})
  BY <1>1, <1>5, BelowGrows
<1> QED
  BY <1>4, <1>5, <1>6

-----------------------------------------------------------------------------
(* The blocks of a queue are its first and those of the rest, and queues   *)
(* that are put together have the blocks of both.                          *)
LEMMA QueueSplit ==
  ASSUME NEW s \in Seq(Blocks), s # <<>>
  PROVE  /\ Head(s) \in Blocks /\ Tail(s) \in Seq(Blocks)
         /\ ToSet(s) = {Head(s)} \cup ToSet(Tail(s))
<1>1. /\ Head(s) \in Blocks /\ Tail(s) \in Seq(Blocks)
      /\ Len(Tail(s)) = Len(s) - 1
      /\ \A i \in 1..Len(Tail(s)) : Tail(s)[i] = s[i + 1]
      /\ Head(s) = s[1]
  BY HeadTailProperties
<1>2. /\ Len(s) \in Nat \ {0} /\ DOMAIN s = 1..Len(s)
      /\ DOMAIN Tail(s) = 1..Len(Tail(s)) /\ Len(Tail(s)) \in Nat
  BY <1>1, EmptySeq, LenProperties
<1>3. ASSUME NEW i \in DOMAIN s
      PROVE  s[i] \in {Head(s)} \cup ToSet(Tail(s))
  <2>1. CASE i = 1
    BY <1>1, <2>1
  <2>2. CASE i # 1
    <3>1. i - 1 \in DOMAIN Tail(s) /\ (i - 1) + 1 = i
      BY <1>1, <1>2, <2>2
    <3>2. Tail(s)[i - 1] = s[i]
      BY <1>1, <1>2, <3>1
    <3> QED
      BY <3>1, <3>2 DEF ToSet
  <2> QED
    BY <2>1, <2>2
<1>4. ASSUME NEW i \in DOMAIN Tail(s)
      PROVE  Tail(s)[i] \in ToSet(s)
  <2>1. i + 1 \in DOMAIN s /\ Tail(s)[i] = s[i + 1]
    BY <1>1, <1>2
  <2> QED
    BY <2>1 DEF ToSet
<1>5. 1 \in DOMAIN s
  BY <1>2
<1> QED
  BY <1>1, <1>3, <1>4, <1>5 DEF ToSet

LEMMA QueueConcat ==
  ASSUME NEW s \in Seq(Blocks), NEW u \in Seq(Blocks)
  PROVE  /\ s \o u \in Seq(Blocks)
         /\ ToSet(s \o u) = ToSet(s) \cup ToSet(u)
<1>1. /\ s \o u \in Seq(Blocks)
      /\ Len(s \o u) = Len(s) + Len(u)
      /\ \A i \in 1 .. Len(s) + Len(u) : (s \o u)[i] =
           IF i <= Len(s) THEN s[i] ELSE u[i - Len(s)]
  BY ConcatProperties
<1>2. /\ Len(s) \in Nat /\ DOMAIN s = 1..Len(s)
      /\ Len(u) \in Nat /\ DOMAIN u = 1..Len(u)
      /\ DOMAIN (s \o u) = 1..(Len(s) + Len(u))
  BY <1>1, LenProperties
<1>3. ASSUME NEW i \in DOMAIN (s \o u)
      PROVE  (s \o u)[i] \in ToSet(s) \cup ToSet(u)
  <2>1. CASE i <= Len(s)
    <3>1. i \in DOMAIN s /\ (s \o u)[i] = s[i]
      BY <1>1, <1>2, <2>1
    <3> QED
      BY <3>1 DEF ToSet
  <2>2. CASE ~(i <= Len(s))
    <3>1. i - Len(s) \in DOMAIN u /\ (s \o u)[i] = u[i - Len(s)]
      BY <1>1, <1>2, <2>2
    <3> QED
      BY <3>1 DEF ToSet
  <2> QED
    BY <2>1, <2>2
<1>4. ASSUME NEW i \in DOMAIN s
      PROVE  s[i] \in ToSet(s \o u)
  <2>1. i \in DOMAIN (s \o u) /\ (s \o u)[i] = s[i]
    BY <1>1, <1>2
  <2> QED
    BY <2>1 DEF ToSet
<1>5. ASSUME NEW i \in DOMAIN u
      PROVE  u[i] \in ToSet(s \o u)
  <2>1. i + Len(s) \in DOMAIN (s \o u) /\ (s \o u)[i + Len(s)] = u[i]
    BY <1>1, <1>2
  <2> QED
    BY <2>1 DEF ToSet
<1> QED
  BY <1>1, <1>3, <1>4, <1>5 DEF ToSet

LEMMA QueueEnds ==
  /\ <<>> \in Seq(Blocks) /\ ToSet(<<>>) = {}
  /\ \A b \in Blocks : <<b>> \in Seq(Blocks) /\ ToSet(<<b>>) = {b}
<1>1. <<>> \in Seq(Blocks) /\ ToSet(<<>>) = {}
  BY EmptySeq DEF ToSet
<1>2. ASSUME NEW b \in Blocks
      PROVE  <<b>> \in Seq(Blocks) /\ ToSet(<<b>>) = {b}
  <2>1. <<b>> \in Seq(Blocks) /\ DOMAIN <<b>> = {1} /\ <<b>>[1] = b
    OBVIOUS
  <2> QED
    BY <2>1 DEF ToSet
<1> QED
  BY <1>1, <1>2

(* A queue holds blocks only.                                              *)
LEMMA QueueBlocks ==
  ASSUME NEW s \in Seq(Blocks)
  PROVE  ToSet(s) \in SUBSET Blocks
BY LenProperties DEF ToSet

(* The children of a block, as they are queued: each of them and no other. *)
LEMMA ChildrenQueued ==
  ASSUME LinksTypeOK, NEW b \in Blocks
  PROVE  Children(b) \in Seq(Blocks) /\ ToSet(Children(b)) = links[b]
<1> DEFINE S == links[b]
           n == Cardinality(S)
<1>1. IsFiniteSet(S) /\ S \subseteq Blocks
  BY StoreAssumption, FS_Subset DEF LinksTypeOK
<1>2. n \in Nat /\ ExistsBijection(1..n, S)
  BY <1>1, FS_CardinalityType
<1> HIDE DEF n
<1>3. PICK g : g \in Bijection(1..n, S)
  BY <1>2 DEF ExistsBijection
<1>4. g \in [1..n -> S] /\ IsInjective(g)
  BY <1>3 DEF Bijection, Injection
<1> DEFINE f == Children(b)
<1>5. f = CHOOSE h \in [1..n -> S] : IsInjective(h)
  BY DEF Children, SetToSeq, n
<1> HIDE DEF f
<1>6. f \in [1..n -> S] /\ IsInjective(f)
  BY <1>4, <1>5
<1>7. f \in Injection(1..n, S)
  BY <1>6 DEF Injection
<1>8. Cardinality(1..n) = n
  BY <1>2, FS_Interval
<1>9. f \in Surjection(1..n, S)
  BY <1>1, <1>7, <1>8, FS_Injection DEF n
<1>10. \A c \in S : \E i \in 1..n : f[i] = c
  BY <1>9 DEF Surjection
<1>11. f \in Seq(Blocks) /\ DOMAIN f = 1..n
  <2>1. f \in [1..n -> Blocks]
    BY <1>1, <1>6
  <2> QED
    BY <1>2, <2>1, SeqDef
<1>12. ToSet(f) = S
  BY <1>6, <1>10, <1>11 DEF ToSet
<1> QED
  BY <1>11, <1>12 DEF f

-----------------------------------------------------------------------------
(* A file that is open to be written has a name: nothing here takes it off.*)
Opened ==
  \A t \in Tasks : job[t].at = "writing" => files[job[t].block] # "absent"

(* How far an extraction or collection is: what it has and what is left on *)
(* its stack are of the site, and together they are the whole site, but    *)
(* for what a pin finds missing.  The node collects while it downloads.    *)
Gathered ==
  \A t \in Tasks :
    /\ at[t] = "idle" => got[t] = {}
    /\ at[t] \in Downloading =>
         /\ program[t] # "none"
         /\ IF program[t] = "node"
            THEN Site \subseteq got[t] \cup Below(ToSet(todo[t])) \cup Below(passed[t])
            ELSE got[t] = {}
    /\ at[t] = "extracting" =>
         /\ program[t] \in {"cli", "browser", "pin"}
         /\ got[t] \cup ToSet(todo[t]) \subseteq Site
         /\ Site \subseteq got[t] \cup Below(ToSet(todo[t]))
                             \cup (IF program[t] = "pin" THEN Below(passed[t])
                                                         ELSE {})
    /\ at[t] = "done" /\ program[t] \in {"cli", "browser"} => got[t] = Site
    /\ at[t] = "done" /\ program[t] \in {"pin", "node"} =>
         Site \subseteq got[t] \cup Below(passed[t])

IInv == TypeOK /\ Opened /\ DownloadCovers /\ Gathered

-----------------------------------------------------------------------------
(* Types, step by step.                                                    *)
LEMMA InitType == Init => TypeOK
BY StoreAssumption, FetchAssumption
   DEF Init, StoreInit, TypeOK, StoreTypeOK, Downloading

(* What a task knows of the queue it works on: the current block and the   *)
(* rest of the queue.                                                      *)
LEMMA CurrentType ==
  ASSUME TypeOK, NEW t \in Tasks, todo[t] # <<>>
  PROVE  /\ Current(t) \in Blocks
         /\ Tail(todo[t]) \in Seq(Blocks)
         /\ ToSet(todo[t]) = {Current(t)} \cup ToSet(Tail(todo[t]))
BY QueueSplit DEF TypeOK, Current

LEMMA PinsType ==
  ASSUME TypeOK, NEW t \in Tasks, todo[t] # <<>>, Pins(t)
  PROVE  got' \in [Tasks -> SUBSET Blocks]
<1>1. Current(t) \in Blocks /\ got[t] \in SUBSET Blocks
  BY CurrentType DEF TypeOK
<1> QED
  BY <1>1 DEF Pins, TypeOK

LEMMA GoOnType ==
  ASSUME TypeOK, NEW t \in Tasks, NEW d \in Blocks, NEW lost \in SUBSET Blocks,
         todo[t] # <<>>, at[t] # "storing" \/ job'[t].at = "idle",
         \A u \in Tasks \ {t} : job'[u].at = job[u].at,
         at[t] = "storing" \/ job'[t].at = job[t].at,
         StoreTypeOK', links' = links,
         GoOn(t, d, lost)
  PROVE  TypeOK'
<1>1. Tail(todo[t]) \in Seq(Blocks) /\ Children(d) \in Seq(Blocks)
  BY CurrentType, ChildrenQueued DEF TypeOK, LinksTypeOK
<1>2. Tail(todo[t]) \o Children(d) \in Seq(Blocks)
  BY <1>1, QueueConcat
<1>3. got' \in [Tasks -> SUBSET Blocks]
  BY PinsType DEF GoOn
<1> QED
  BY <1>2, <1>3 DEF TypeOK, GoOn, Downloading

LEMMA SkipType ==
  ASSUME TypeOK, NEW t \in Tasks, todo[t] # <<>>, at[t] # "storing",
         UNCHANGED <<storeVars, links>>, Skip(t), Pins(t) \/ UNCHANGED got
  PROVE  TypeOK'
<1>1. Tail(todo[t]) \in Seq(Blocks) /\ Current(t) \in Blocks
  BY CurrentType
<1>2. got' \in [Tasks -> SUBSET Blocks]
  BY PinsType DEF TypeOK
<1> QED
  BY <1>1, <1>2 DEF TypeOK, StoreTypeOK, storeVars, Skip, Downloading

LEMMA ForgetType ==
  ASSUME TypeOK, NEW t \in Tasks, StoreTypeOK', job'[t].at = "idle",
         \A u \in Tasks \ {t} : job'[u].at = job[u].at,
         UNCHANGED links, Forget(t)
  PROVE  TypeOK'
<1>1. <<>> \in Seq(Blocks)
  BY EmptySeq
<1> QED
  BY <1>1 DEF TypeOK, Forget, Downloading

(* The store's own steps keep its types.                                   *)
LEMMA StoreStepType ==
  ASSUME StoreTypeOK, NEW t \in Tasks, NEW b \in Blocks,
         PutChecks(t, b) \/ PutOpens(t) \/ PutWrites(t) \/ TaskCrashes(t)
  PROVE  /\ StoreTypeOK'
         /\ \A u \in Tasks \ {t} : job'[u] = job[u]
         /\ PutChecks(t, b) => job'[t].at = "opening"
         /\ PutOpens(t) => job'[t].at = "writing"
         /\ PutWrites(t) \/ TaskCrashes(t) => job'[t].at = "idle"
<1>1. CASE PutChecks(t, b)
  BY <1>1 DEF StoreTypeOK, PutChecks, PutOpens, PutWrites, TaskCrashes
<1>2. CASE PutOpens(t)
  BY <1>2 DEF StoreTypeOK, PutChecks, PutOpens, PutWrites, TaskCrashes
<1>3. CASE PutWrites(t)
  BY <1>3 DEF StoreTypeOK, PutChecks, PutOpens, PutWrites, TaskCrashes
<1>4. CASE TaskCrashes(t)
  BY <1>4, StoreAssumption
     DEF StoreTypeOK, PutChecks, PutOpens, PutWrites, TaskCrashes
<1> QED
  BY <1>1, <1>2, <1>3, <1>4

LEMMA NextType == TypeOK /\ [Next]_vars => TypeOK'
<1> SUFFICES ASSUME TypeOK, [Next]_vars
             PROVE  TypeOK'
  OBVIOUS
<1>1. CASE UNCHANGED vars
  BY <1>1 DEF vars, storeVars, fetchVars, TypeOK, StoreTypeOK
<1>2. ASSUME NEW t \in Tasks, NEW p \in Programs(t), Start(t, p)
      PROVE  TypeOK'
  <2>1. <<Root>> \in Seq(Blocks)
    BY FetchAssumption, QueueEnds
  <2> QED
    BY <1>2, <2>1
       DEF Start, Programs, TypeOK, StoreTypeOK, storeVars, Downloading
<1>3. ASSUME NEW t \in Tasks, Look(t)
      PROVE  TypeOK'
  BY <1>3 DEF Look, TypeOK, StoreTypeOK, storeVars, Downloading
<1>4. ASSUME NEW t \in Tasks, Read(t)
      PROVE  TypeOK'
  <2>1. todo[t] # <<>> /\ at[t] = "reading"
    BY <1>4 DEF Read, TypeOK, Downloading
  <2>2. Current(t) \in Blocks
    BY <2>1, CurrentType
  <2>3. StoreTypeOK' /\ job' = job /\ links' = links
    BY <1>4 DEF Read, TypeOK, StoreTypeOK, storeVars
  <2>4. CASE files[Current(t)] = "whole"
    BY <1>4, <2>1, <2>2, <2>3, <2>4, GoOnType DEF Read
  <2>5. CASE files[Current(t)] # "whole"
    BY <1>4, <2>1, <2>5, SkipType DEF Read
  <2> QED
    BY <2>4, <2>5
<1>5. ASSUME NEW t \in Tasks, NEW d \in Blocks, Answers(t, d)
      PROVE  /\ at[t] = "asking" /\ todo[t] # <<>> /\ Current(t) \in Blocks
            
  <2>1. at[t] = "asking" /\ todo[t] # <<>>
    BY <1>5 DEF Answers, TypeOK, Downloading
  <2> QED
    BY <1>5, <2>1, CurrentType, FetchAssumption DEF Answers, TypeOK
<1>6. ASSUME NEW t \in Tasks, NEW d \in Blocks, AnswerKnown(t, d)
      PROVE  TypeOK'
  <2>1. /\ at[t] = "asking" /\ todo[t] # <<>> /\ Current(t) \in Blocks
       
    BY <1>5, <1>6 DEF AnswerKnown
  <2>2. Lost(t, d) \in SUBSET Blocks
    BY <2>1 DEF Lost
  <2>3. StoreTypeOK' /\ job' = job /\ links' = links
    BY <1>6 DEF AnswerKnown, TypeOK, StoreTypeOK, storeVars
  <2> QED
    BY <1>6, <2>1, <2>2, <2>3, GoOnType DEF AnswerKnown
<1>7. ASSUME NEW t \in Tasks, NEW d \in Blocks, AnswerStored(t, d)
      PROVE  TypeOK'
  <2>1. at[t] = "asking" /\ todo[t] # <<>>
    BY <1>5, <1>7 DEF AnswerStored
  <2>2. StoreTypeOK' /\ job'[t].at = "opening"
        /\ \A u \in Tasks \ {t} : job'[u] = job[u]
    BY <1>7, StoreStepType DEF AnswerStored, TypeOK
  <2> QED
    BY <1>7, <2>1, <2>2 DEF AnswerStored, TypeOK, Downloading
<1>8. ASSUME NEW t \in Tasks, NEW d \in Blocks, AnswerRefused(t, d)
      PROVE  TypeOK'
  <2>1. /\ at[t] = "asking" /\ todo[t] # <<>> /\ Current(t) \in Blocks
       
    BY <1>5, <1>8 DEF AnswerRefused
  <2>2. StoreTypeOK' /\ job' = job /\ links' = links
    BY <1>8 DEF AnswerRefused, TypeOK, StoreTypeOK, storeVars
  <2>3. CASE program[t] \in Strict
    <3>1. job[t].at = "idle" /\ <<>> \in Seq(Blocks)
      BY <2>1, EmptySeq DEF TypeOK, StoreTypeOK
    <3> QED
      BY <1>8, <2>1, <2>2, <2>3, <3>1
         DEF AnswerRefused, Forget, TypeOK, Downloading
  <2>4. CASE program[t] \notin Strict
    BY <1>8, <2>1, <2>2, <2>4, GoOnType DEF AnswerRefused
  <2> QED
    BY <2>3, <2>4
<1>9. ASSUME NEW t \in Tasks, Unanswered(t)
      PROVE  TypeOK'
  <2>1. at[t] = "asking" /\ todo[t] # <<>> /\ job[t].at = "idle"
    BY <1>9 DEF Unanswered, TypeOK, StoreTypeOK, Downloading
  <2>2. CASE program[t] \in Strict
    BY <1>9, <2>1, <2>2, ForgetType
       DEF Unanswered, TypeOK, StoreTypeOK, storeVars
  <2>3. CASE program[t] \notin Strict
    BY <1>9, <2>1, <2>3, SkipType DEF Unanswered
  <2> QED
    BY <2>2, <2>3
<1>10. ASSUME NEW t \in Tasks, Opens(t)
       PROVE  TypeOK'
  <2>1. StoreTypeOK' /\ job'[t].at = "writing"
        /\ \A u \in Tasks \ {t} : job'[u] = job[u]
    BY <1>10, StoreStepType, FetchAssumption DEF Opens, TypeOK
  <2>2. job[t].at = "opening"
    BY <1>10 DEF Opens, PutOpens
  <2> QED
    BY <1>10, <2>1, <2>2 DEF Opens, fetchVars, TypeOK
<1>11. ASSUME NEW t \in Tasks, Stored(t)
       PROVE  TypeOK'
  <2>1. StoreTypeOK' /\ job'[t].at = "idle"
        /\ \A u \in Tasks \ {t} : job'[u] = job[u]
    BY <1>11, StoreStepType, FetchAssumption DEF Stored, TypeOK
  <2>2. job[t].at = "writing" /\ job[t].block \in Blocks
    BY <1>11 DEF Stored, PutWrites, TypeOK, StoreTypeOK
  <2>3. at[t] = "storing" /\ todo[t] # <<>>
    BY <2>2 DEF TypeOK, Downloading
  <2>4. Lost(t, job[t].block) \in SUBSET Blocks
    BY <2>3, CurrentType DEF Lost
  <2>5. links' = links
    BY <1>11 DEF Stored, TypeOK
  <2> QED
    BY <1>11, <2>1, <2>2, <2>3, <2>4, <2>5, GoOnType DEF Stored
<1>12. ASSUME NEW t \in Tasks, WalkEnds(t)
       PROVE  TypeOK'
  <2>1. <<Root>> \in Seq(Blocks) /\ <<>> \in Seq(Blocks)
    BY FetchAssumption, QueueEnds
  <2> QED
    BY <1>12, <2>1 DEF WalkEnds, TypeOK, StoreTypeOK, storeVars, Downloading
<1>13. ASSUME NEW t \in Tasks, Extract(t) \/ Collect(t)
       PROVE  TypeOK'
  <2>1. /\ Current(t) \in Blocks /\ Tail(todo[t]) \in Seq(Blocks)
        /\ at[t] = "extracting" /\ job[t].at = "idle"
    BY <1>13, CurrentType DEF Extract, Collect, TypeOK, StoreTypeOK
  <2>2. /\ Children(Current(t)) \o Tail(todo[t]) \in Seq(Blocks)
        /\ <<>> \o Tail(todo[t]) \in Seq(Blocks)
    BY <2>1, ChildrenQueued, QueueConcat, QueueEnds DEF TypeOK, LinksTypeOK
  <2>3. StoreTypeOK' /\ UNCHANGED <<job, links>>
    BY <1>13 DEF Extract, Collect, TypeOK, StoreTypeOK, storeVars
  <2>4. CASE Forget(t)
    BY <2>1, <2>3, <2>4, ForgetType DEF TypeOK
  <2>5. CASE ~Forget(t)
    <3>1. /\ todo' = [todo EXCEPT ![t] = Children(Current(t)) \o Tail(@)]
             \/ todo' = [todo EXCEPT ![t] = <<>> \o Tail(@)]
          /\ got' = [got EXCEPT ![t] = @ \cup {Current(t)}]
          /\ UNCHANGED <<program, at, passed>>
      BY <1>13, <2>5 DEF Extract, Collect
    <3>2. todo' \in [Tasks -> Seq(Blocks)] /\ \A u \in Tasks \ {t} : todo'[u] = todo[u]
      BY <2>2, <3>1 DEF TypeOK
    <3> QED
      BY <2>1, <2>3, <3>1, <3>2 DEF TypeOK, Downloading
  <2> QED
    BY <2>4, <2>5
<1>14. ASSUME NEW t \in Tasks, ExtractEnds(t)
       PROVE  TypeOK'
  BY <1>14 DEF ExtractEnds, TypeOK, StoreTypeOK, storeVars, Downloading
<1>15. ASSUME NEW t \in Tasks, Crashes(t)
       PROVE  TypeOK'
  <2>1. StoreTypeOK' /\ job'[t].at = "idle"
        /\ \A u \in Tasks \ {t} : job'[u] = job[u]
    BY <1>15, StoreStepType, FetchAssumption DEF Crashes, TypeOK
  <2> QED
    BY <1>15, <2>1, ForgetType DEF Crashes
<1> QED
  BY <1>1, <1>2, <1>3, <1>4, <1>6, <1>7, <1>8, <1>9, <1>10, <1>11, <1>12,
     <1>13, <1>14, <1>15 DEF Next, Step

(* The types of the download and the extraction hold, for any site, any    *)
(* programs and however often they are killed or misled.                   *)
THEOREM TypeCorrect == Spec => []TypeOK
BY InitType, NextType, PTL DEF Spec

-----------------------------------------------------------------------------
(* Links never change, a block that is there stays, and so do the names of *)
(* files that are open.                                                    *)
LEMMA StoreGrows ==
  ASSUME TypeOK, Opened, [Next]_vars
  PROVE  links' = links /\ Present \subseteq Present' /\ Opened'
<1>1. CASE UNCHANGED <<storeVars, links>>
  BY <1>1 DEF storeVars, Present, Opened
<1>2. ASSUME NEW t \in Tasks, NEW d \in Blocks, PutChecks(t, d)
      PROVE  Present \subseteq Present' /\ Opened'
  BY <1>2 DEF PutChecks, Present, Opened, TypeOK, StoreTypeOK
<1>3. ASSUME NEW t \in Tasks, PutOpens(t)
      PROVE  Present \subseteq Present' /\ Opened'
  BY <1>3 DEF PutOpens, Present, Opened, TypeOK, StoreTypeOK
<1>4. ASSUME NEW t \in Tasks, PutWrites(t)
      PROVE  Present \subseteq Present' /\ Opened'
  <2>1. CASE t \in linked
    BY <1>4, <2>1 DEF PutWrites, Present, Opened, TypeOK, StoreTypeOK
  <2>2. CASE t \notin linked
    BY <1>4, <2>2 DEF PutWrites, Present, Opened, TypeOK, StoreTypeOK
  <2> QED
    BY <2>1, <2>2
<1>5. ASSUME NEW t \in Tasks, TaskCrashes(t)
      PROVE  Present \subseteq Present' /\ Opened'
  BY <1>5 DEF TaskCrashes, Present, Opened, TypeOK, StoreTypeOK
<1>6. CASE UNCHANGED vars
  BY <1>1, <1>6 DEF vars, fetchVars
<1>7. ASSUME NEW t \in Tasks, NEW p \in Programs(t), Start(t, p)
      PROVE  links' = links /\ Present \subseteq Present' /\ Opened'
  BY <1>1, <1>7 DEF Start
<1>8. ASSUME NEW t \in Tasks, Step(t)
      PROVE  links' = links /\ Present \subseteq Present' /\ Opened'
  <2>1. CASE UNCHANGED <<storeVars, links>>
    BY <1>1, <2>1
  <2>2. ASSUME NEW d \in Blocks, AnswerStored(t, d)
        PROVE  links' = links /\ Present \subseteq Present' /\ Opened'
    BY <1>2, <2>2 DEF AnswerStored
  <2>3. CASE Opens(t)
    BY <1>3, <2>3 DEF Opens, fetchVars
  <2>4. CASE Stored(t)
    BY <1>4, <2>4 DEF Stored
  <2> QED
    BY <1>8, <2>1, <2>2, <2>3, <2>4
       DEF Step, Look, Read, AnswerKnown, AnswerRefused, Unanswered, WalkEnds,
           Extract, Collect, ExtractEnds
<1>9. ASSUME NEW t \in Tasks, Crashes(t)
      PROVE  links' = links /\ Present \subseteq Present' /\ Opened'
  BY <1>5, <1>9 DEF Crashes
<1> QED
  BY <1>6, <1>7, <1>8, <1>9 DEF Next

(* What is below a set stays the same while the links do.                  *)
LEMMA BelowSame ==
  ASSUME links' = links
  PROVE  /\ Site' = Site
         /\ \A t \in Tasks :
              /\ Below(ToSet(todo[t]))' = Below(ToSet(todo'[t]))
              /\ Below(passed[t])' = Below(passed'[t])
BY DEF Site, Below, Closed

(* A step of one task leaves what the others cover.                        *)
LEMMA OthersCovered ==
  ASSUME DownloadCovers, links' = links, Present \subseteq Present',
         NEW t \in Tasks,
         \A u \in Tasks \ {t} :
           at'[u] = at[u] /\ todo'[u] = todo[u] /\ passed'[u] = passed[u],
         at'[t] \in Downloading =>
           Site \subseteq Present' \cup Below(ToSet(todo'[t])) \cup Below(passed'[t]),
         at'[t] \in {"extracting", "done"} =>
           Site \subseteq Present' \cup Below(passed'[t])
  PROVE  DownloadCovers'
<1> SUFFICES ASSUME NEW u \in Tasks
             PROVE  /\ at'[u] \in Downloading =>
                         Site \subseteq Present' \cup Below(ToSet(todo'[u]))
                                          \cup Below(passed'[u])
                    /\ at'[u] \in {"extracting", "done"} =>
                         Site \subseteq Present' \cup Below(passed'[u])
  BY BelowSame DEF DownloadCovers, Downloading
<1>1. CASE u = t
  BY <1>1
<1>2. CASE u # t
  BY <1>2 DEF DownloadCovers
<1> QED
  BY <1>1, <1>2

(* The step of the download: what was below the current block is below its *)
(* children, or the block is known to be passed.                           *)
LEMMA GoOnCovers ==
  ASSUME TypeOK, DownloadCovers, links' = links, Present \subseteq Present',
         NEW t \in Tasks, NEW d \in Blocks, NEW lost \in SUBSET Blocks,
         at[t] \in Downloading, todo[t] # <<>>, GoOn(t, d, lost),
         Current(t) \in lost \/ (Current(t) = d /\ d \in Present')
  PROVE  DownloadCovers'
<1> DEFINE c == Current(t)
           rest == ToSet(Tail(todo[t]))
<1>1. LinksTypeOK
  BY DEF TypeOK, LinksTypeOK
<1>2. /\ c \in Blocks /\ Tail(todo[t]) \in Seq(Blocks)
      /\ ToSet(todo[t]) = {c} \cup rest
      /\ rest \in SUBSET Blocks
  BY CurrentType, QueueBlocks
<1>3. /\ todo'[t] = Tail(todo[t]) \o Children(d)
      /\ passed'[t] = passed[t] \cup lost
      /\ at'[t] = "walking"
      /\ \A u \in Tasks \ {t} :
           at'[u] = at[u] /\ todo'[u] = todo[u] /\ passed'[u] = passed[u]
  BY DEF GoOn, TypeOK
<1>4. ToSet(todo'[t]) = rest \cup links[d] /\ links[d] \in SUBSET Blocks
  BY <1>1, <1>2, <1>3, ChildrenQueued, QueueConcat DEF LinksTypeOK
<1>5. Below(ToSet(todo'[t])) = Below(rest) \cup Below(links[d])
  BY <1>1, <1>2, <1>4, BelowUnion
<1>6. passed[t] \in SUBSET Blocks
  BY DEF TypeOK
<1>7. Below(passed'[t]) = Below(passed[t]) \cup Below(lost)
  BY <1>1, <1>3, <1>6, BelowUnion
<1>8. Below(ToSet(todo[t])) = Below({c}) \cup Below(rest)
  BY <1>1, <1>2, BelowUnion
<1>9. Below({c}) \subseteq Present' \cup Below(links[d]) \cup Below(lost)
  <2>1. CASE c \in lost
    <3>1. {c} \in SUBSET Below(lost)
      BY <1>1, <2>1, BelowHolds
    <3> QED
      BY <1>1, <3>1, BelowGrows
  <2>2. CASE c = d /\ d \in Present'
    BY <1>1, <2>2, BelowBlock
  <2> QED
    BY <2>1, <2>2
<1>10. Site \subseteq Present \cup Below(ToSet(todo[t])) \cup Below(passed[t])
  BY DEF DownloadCovers
<1>11. Site \subseteq Present' \cup Below(ToSet(todo'[t])) \cup Below(passed'[t])
  BY <1>5, <1>7, <1>8, <1>9, <1>10
<1> QED
  BY <1>3, <1>11, OthersCovered

LEMMA SkipCovers ==
  ASSUME TypeOK, DownloadCovers, links' = links, Present \subseteq Present',
         NEW t \in Tasks, at[t] \in Downloading, todo[t] # <<>>, Skip(t)
  PROVE  DownloadCovers'
<1> DEFINE c == Current(t)
           rest == ToSet(Tail(todo[t]))
<1>1. LinksTypeOK
  BY DEF TypeOK, LinksTypeOK
<1>2. /\ c \in Blocks /\ {c} \in SUBSET Blocks
      /\ ToSet(todo[t]) = {c} \cup rest
      /\ rest \in SUBSET Blocks
      /\ passed[t] \in SUBSET Blocks
  BY CurrentType, QueueBlocks DEF TypeOK
<1>3. /\ todo'[t] = Tail(todo[t])
      /\ passed'[t] = passed[t] \cup {c}
      /\ at'[t] = "walking"
      /\ \A u \in Tasks \ {t} :
           at'[u] = at[u] /\ todo'[u] = todo[u] /\ passed'[u] = passed[u]
  BY DEF Skip, TypeOK
<1>4. /\ Below(ToSet(todo[t])) = Below({c}) \cup Below(rest)
      /\ Below(passed'[t]) = Below(passed[t]) \cup Below({c})
  BY <1>1, <1>2, <1>3, BelowUnion
<1>5. Site \subseteq Present \cup Below(ToSet(todo[t])) \cup Below(passed[t])
  BY DEF DownloadCovers
<1>6. Site \subseteq Present' \cup Below(ToSet(todo'[t])) \cup Below(passed'[t])
  BY <1>3, <1>4, <1>5
<1> QED
  BY <1>3, <1>6, OthersCovered

LEMMA ForgetCovers ==
  ASSUME TypeOK, DownloadCovers, links' = links, Present \subseteq Present',
         NEW t \in Tasks, Forget(t)
  PROVE  DownloadCovers'
<1>1. /\ at'[t] = "idle"
      /\ \A u \in Tasks \ {t} :
           at'[u] = at[u] /\ todo'[u] = todo[u] /\ passed'[u] = passed[u]
  BY DEF Forget, TypeOK
<1> QED
  BY <1>1, OthersCovered DEF Downloading

LEMMA NextCovers ==
  ASSUME TypeOK, Opened, DownloadCovers, [Next]_vars
  PROVE  DownloadCovers'
<1>1. links' = links /\ Present \subseteq Present'
  BY StoreGrows
<1>2. LinksTypeOK
  BY DEF TypeOK, LinksTypeOK
<1>3. CASE UNCHANGED <<at, todo, passed>>
  BY <1>1, <1>3, BelowSame DEF DownloadCovers
<1>4. CASE UNCHANGED vars
  BY <1>3, <1>4 DEF vars, fetchVars
<1>5. ASSUME NEW t \in Tasks, at[t] \in Downloading, todo[t] # <<>>,
             at'[t] \in Downloading,
             UNCHANGED <<todo, passed>>, \A u \in Tasks \ {t} : at'[u] = at[u]
      PROVE  DownloadCovers'
  <2>1. Site \subseteq Present \cup Below(ToSet(todo[t])) \cup Below(passed[t])
    BY <1>5 DEF DownloadCovers
  <2> QED
    BY <1>1, <1>5, <2>1, OthersCovered DEF Downloading
<1>6. ASSUME NEW t \in Tasks, NEW p \in Programs(t), Start(t, p)
      PROVE  DownloadCovers'
  <2>1. /\ at'[t] = "walking" /\ todo'[t] = <<Root>>
        /\ \A u \in Tasks \ {t} :
             at'[u] = at[u] /\ todo'[u] = todo[u] /\ passed'[u] = passed[u]
    BY <1>6 DEF Start, TypeOK
  <2>2. Site = Below(ToSet(todo'[t]))
    BY <2>1, QueueEnds, FetchAssumption DEF Site
  <2> QED
    BY <1>1, <2>1, <2>2, OthersCovered
<1>7. ASSUME NEW t \in Tasks, Look(t)
      PROVE  DownloadCovers'
  BY <1>5, <1>7 DEF Look, Downloading, TypeOK
<1>8. ASSUME NEW t \in Tasks, Read(t)
      PROVE  DownloadCovers'
  <2>1. at[t] \in Downloading /\ todo[t] # <<>> /\ Current(t) \in Blocks
    BY <1>8, CurrentType DEF Read, TypeOK, Downloading
  <2>2. CASE files[Current(t)] = "whole"
    <3>1. Current(t) \in Present'
      BY <1>1, <2>1, <2>2 DEF Present
    <3> QED
      BY <1>1, <1>8, <2>1, <2>2, <3>1, GoOnCovers DEF Read
  <2>3. CASE files[Current(t)] # "whole"
    BY <1>1, <1>8, <2>1, <2>3, SkipCovers DEF Read
  <2> QED
    BY <2>2, <2>3
<1>9. ASSUME NEW t \in Tasks, NEW d \in Blocks, Answers(t, d)
      PROVE  /\ at[t] \in Downloading /\ todo[t] # <<>>
             /\ Current(t) \in Blocks /\ Lost(t, d) \in SUBSET Blocks
  BY <1>9, CurrentType DEF Answers, Lost, TypeOK, Downloading
<1>10. ASSUME NEW t \in Tasks, NEW d \in Blocks, AnswerKnown(t, d)
       PROVE  DownloadCovers'
  <2>1. /\ at[t] \in Downloading /\ todo[t] # <<>>
        /\ Current(t) \in Blocks /\ Lost(t, d) \in SUBSET Blocks
    BY <1>9, <1>10 DEF AnswerKnown
  <2>2. d \in Present'
    BY <1>1, <1>10 DEF AnswerKnown, Missing, Present
  <2>3. Current(t) \in Lost(t, d) \/ Current(t) = d
    BY DEF Lost
  <2> QED
    BY <1>1, <1>10, <2>1, <2>2, <2>3, GoOnCovers DEF AnswerKnown
<1>11. ASSUME NEW t \in Tasks, NEW d \in Blocks, AnswerStored(t, d)
       PROVE  DownloadCovers'
  BY <1>5, <1>9, <1>11 DEF AnswerStored, TypeOK, Downloading
<1>12. ASSUME NEW t \in Tasks, NEW d \in Blocks, AnswerRefused(t, d)
       PROVE  DownloadCovers'
  <2>1. /\ at[t] \in Downloading /\ todo[t] # <<>> /\ Current(t) \in Blocks
    BY <1>9, <1>12 DEF AnswerRefused
  <2>2. CASE program[t] \in Strict
    BY <1>1, <1>12, <2>2, ForgetCovers DEF AnswerRefused
  <2>3. CASE program[t] \notin Strict
    BY <1>1, <1>12, <2>1, <2>3, GoOnCovers DEF AnswerRefused
  <2> QED
    BY <2>2, <2>3
<1>13. ASSUME NEW t \in Tasks, Unanswered(t)
       PROVE  DownloadCovers'
  <2>1. at[t] \in Downloading /\ todo[t] # <<>>
    BY <1>13 DEF Unanswered, TypeOK, Downloading
  <2> QED
    BY <1>1, <1>13, <2>1, ForgetCovers, SkipCovers DEF Unanswered
<1>14. ASSUME NEW t \in Tasks, Stored(t)
       PROVE  DownloadCovers'
  <2> DEFINE d == job[t].block
  <2>1. job[t].at = "writing" /\ d \in Blocks
    BY <1>14 DEF Stored, PutWrites, TypeOK, StoreTypeOK
  <2>2. at[t] = "storing" /\ todo[t] # <<>>
    BY <2>1 DEF TypeOK, Downloading
  <2>3. Lost(t, d) \in SUBSET Blocks
    BY <2>2, CurrentType DEF Lost
  <2>4. d \in Present'
    BY <1>1, <2>1 DEF Opened, Present
  <2>5. Current(t) \in Lost(t, d) \/ Current(t) = d
    BY DEF Lost
  <2>6. GoOn(t, d, Lost(t, d))
    BY <1>14 DEF Stored
  <2> HIDE DEF d
  <2> QED
    BY <1>1, <2>1, <2>2, <2>3, <2>4, <2>5, <2>6, GoOnCovers DEF Downloading
<1>15. ASSUME NEW t \in Tasks, WalkEnds(t)
       PROVE  DownloadCovers'
  <2>1. /\ at'[t] \in {"extracting", "done"} /\ passed'[t] = passed[t]
        /\ \A u \in Tasks \ {t} :
             at'[u] = at[u] /\ todo'[u] = todo[u] /\ passed'[u] = passed[u]
    BY <1>15 DEF WalkEnds, TypeOK
  <2>2. Below(ToSet(todo[t])) = {}
    BY <1>2, <1>15, QueueEnds, BelowNothing DEF WalkEnds
  <2>3. Site \subseteq Present' \cup Below(passed'[t])
    BY <1>1, <1>15, <2>1, <2>2 DEF WalkEnds, DownloadCovers, Downloading
  <2> QED
    BY <1>1, <2>1, <2>3, OthersCovered DEF Downloading
<1>16. ASSUME NEW t \in Tasks, Extract(t) \/ Collect(t) \/ ExtractEnds(t)
       PROVE  DownloadCovers'
  <2>1. CASE Forget(t)
    BY <1>1, <2>1, ForgetCovers
  <2>2. CASE ~Forget(t)
    <3>1. /\ at'[t] \in {"extracting", "done"} /\ at[t] = "extracting"
          /\ passed' = passed
          /\ \A u \in Tasks \ {t} : at'[u] = at[u] /\ todo'[u] = todo[u]
      BY <1>16, <2>2 DEF Extract, Collect, ExtractEnds, TypeOK
    <3>2. Site \subseteq Present' \cup Below(passed'[t])
      BY <1>1, <3>1 DEF DownloadCovers
    <3> QED
      BY <1>1, <3>1, <3>2, OthersCovered DEF Downloading
  <2> QED
    BY <2>1, <2>2
<1>17. ASSUME NEW t \in Tasks, Opens(t)
       PROVE  DownloadCovers'
  BY <1>3, <1>17 DEF Opens, fetchVars
<1>18. ASSUME NEW t \in Tasks, Crashes(t)
       PROVE  DownloadCovers'
  BY <1>1, <1>18, ForgetCovers DEF Crashes
<1> QED
  BY <1>4, <1>6, <1>7, <1>8, <1>10, <1>11, <1>12, <1>13, <1>14, <1>15, <1>16,
     <1>17, <1>18 DEF Next, Step

-----------------------------------------------------------------------------
(* A step of one task leaves what the others have gathered.                *)
LEMMA OthersGathered ==
  ASSUME Gathered, links' = links, NEW t \in Tasks,
         \A u \in Tasks \ {t} :
           /\ at'[u] = at[u] /\ program'[u] = program[u]
           /\ todo'[u] = todo[u] /\ passed'[u] = passed[u] /\ got'[u] = got[u],
         at'[t] = "idle" => got'[t] = {},
         at'[t] \in Downloading =>
           /\ program'[t] # "none"
           /\ IF program'[t] = "node"
              THEN Site \subseteq got'[t] \cup Below(ToSet(todo'[t]))
                                       \cup Below(passed'[t])
              ELSE got'[t] = {},
         at'[t] = "extracting" =>
           /\ program'[t] \in {"cli", "browser", "pin"}
           /\ got'[t] \cup ToSet(todo'[t]) \subseteq Site
           /\ Site \subseteq got'[t] \cup Below(ToSet(todo'[t]))
                \cup (IF program'[t] = "pin" THEN Below(passed'[t]) ELSE {}),
         at'[t] = "done" /\ program'[t] \in {"cli", "browser"} => got'[t] = Site,
         at'[t] = "done" /\ program'[t] \in {"pin", "node"} =>
           Site \subseteq got'[t] \cup Below(passed'[t])
  PROVE  Gathered'
<1> SUFFICES ASSUME NEW u \in Tasks
             PROVE
    /\ at'[u] = "idle" => got'[u] = {}
    /\ at'[u] \in Downloading =>
         /\ program'[u] # "none"
         /\ IF program'[u] = "node"
            THEN Site \subseteq got'[u] \cup Below(ToSet(todo'[u]))
                                     \cup Below(passed'[u])
            ELSE got'[u] = {}
    /\ at'[u] = "extracting" =>
         /\ program'[u] \in {"cli", "browser", "pin"}
         /\ got'[u] \cup ToSet(todo'[u]) \subseteq Site
         /\ Site \subseteq got'[u] \cup Below(ToSet(todo'[u]))
              \cup (IF program'[u] = "pin" THEN Below(passed'[u]) ELSE {})
    /\ at'[u] = "done" /\ program'[u] \in {"cli", "browser"} => got'[u] = Site
    /\ at'[u] = "done" /\ program'[u] \in {"pin", "node"} =>
         Site \subseteq got'[u] \cup Below(passed'[u])
  BY BelowSame DEF Gathered, Downloading, ToSet
<1>1. CASE u = t
  BY <1>1
<1>2. CASE u # t
  BY <1>2 DEF Gathered
<1> QED
  BY <1>1, <1>2

LEMMA ForgetGathered ==
  ASSUME TypeOK, Gathered, links' = links, NEW t \in Tasks, Forget(t)
  PROVE  Gathered'
<1>1. /\ at'[t] = "idle" /\ got'[t] = {}
      /\ \A u \in Tasks \ {t} :
           /\ at'[u] = at[u] /\ program'[u] = program[u]
           /\ todo'[u] = todo[u] /\ passed'[u] = passed[u] /\ got'[u] = got[u]
  BY DEF Forget, TypeOK
<1> QED
  BY <1>1, OthersGathered DEF Downloading

(* A step within the download that takes nothing from the queue.           *)
LEMMA DownloadGathered ==
  ASSUME TypeOK, Gathered, links' = links, NEW t \in Tasks,
         at[t] \in Downloading, at'[t] \in Downloading,
         UNCHANGED <<program, got, todo, passed>>,
         \A u \in Tasks \ {t} : at'[u] = at[u]
  PROVE  Gathered'
<1>1. /\ program'[t] # "none"
      /\ IF program'[t] = "node"
         THEN Site \subseteq got'[t] \cup Below(ToSet(todo'[t])) \cup Below(passed'[t])
         ELSE got'[t] = {}
  BY DEF Gathered
<1> QED
  BY <1>1, OthersGathered DEF Downloading

(* A step that takes the current block from the queue: the node notes it,  *)
(* and queues what is below it or knows that it went on without it.        *)
LEMMA WalkGathered ==
  ASSUME TypeOK, Gathered, links' = links, NEW t \in Tasks,
         at[t] \in Downloading, todo[t] # <<>>,
         NEW more \in SUBSET Blocks, NEW lost \in SUBSET Blocks,
         at' = [at EXCEPT ![t] = "walking"],
         ToSet(todo'[t]) = ToSet(Tail(todo[t])) \cup more,
         \A u \in Tasks \ {t} : todo'[u] = todo[u],
         passed' = [passed EXCEPT ![t] = @ \cup lost],
         UNCHANGED program,
         Pins(t) \/ (UNCHANGED got /\ Current(t) \in lost),
         Current(t) \in lost \/ more = links[Current(t)]
  PROVE  Gathered'
<1> DEFINE c == Current(t)
           rest == ToSet(Tail(todo[t]))
<1>1. LinksTypeOK
  BY DEF TypeOK, LinksTypeOK
<1>2. /\ c \in Blocks /\ {c} \in SUBSET Blocks /\ links[c] \in SUBSET Blocks
      /\ ToSet(todo[t]) = {c} \cup rest
      /\ rest \in SUBSET Blocks
      /\ passed[t] \in SUBSET Blocks
  BY CurrentType, QueueBlocks DEF TypeOK
<1>3. /\ at'[t] = "walking" /\ passed'[t] = passed[t] \cup lost
      /\ program'[t] = program[t] /\ program[t] # "none"
      /\ \A u \in Tasks \ {t} :
           /\ at'[u] = at[u] /\ program'[u] = program[u]
           /\ todo'[u] = todo[u] /\ passed'[u] = passed[u] /\ got'[u] = got[u]
  BY DEF Pins, TypeOK, Gathered
<1>4. CASE program[t] # "node"
  <2>1. got'[t] = {}
    BY <1>4 DEF Pins, TypeOK, Gathered
  <2> QED
    BY <1>3, <1>4, <2>1, OthersGathered
<1>5. CASE program[t] = "node"
  <2>1. Site \subseteq got[t] \cup Below(ToSet(todo[t])) \cup Below(passed[t])
    BY <1>5 DEF Gathered
  <2>2. /\ Below(ToSet(todo[t])) = {c} \cup Below(links[c]) \cup Below(rest)
        /\ Below(ToSet(todo'[t])) = Below(rest) \cup Below(more)
        /\ Below(passed'[t]) = Below(passed[t]) \cup Below(lost)
    <3>1. Below({c}) = {c} \cup Below(links[c])
      BY <1>1, <1>2, BelowBlock
    <3>2. Below({c} \cup rest) = Below({c}) \cup Below(rest)
      BY <1>1, <1>2, BelowUnion
    <3>3. Below(rest \cup more) = Below(rest) \cup Below(more)
      BY <1>1, <1>2, BelowUnion
    <3>4. Below(passed[t] \cup lost) = Below(passed[t]) \cup Below(lost)
      BY <1>1, <1>2, BelowUnion
    <3> QED
      BY <1>2, <1>3, <3>1, <3>2, <3>3, <3>4
  <2>3. got[t] \subseteq got'[t]
    BY DEF Pins, TypeOK
  <2>4. {c} \cup Below(links[c]) \subseteq got'[t] \cup Below(more) \cup Below(lost)
    <3>1. CASE c \in lost
      <4>1. {c} \in SUBSET Below(lost)
        BY <1>1, <3>1, BelowHolds
      <4>2. Below({c}) \subseteq Below(lost)
        BY <1>1, <4>1, BelowGrows
      <4> QED
        BY <1>1, <1>2, <4>2, BelowBlock
    <3>2. CASE c \notin lost
      <4>1. more = links[c] /\ c \in got'[t]
        BY <1>5, <3>2 DEF Pins, TypeOK
      <4> QED
        BY <4>1
    <3> QED
      BY <3>1, <3>2
  <2>5. Site \subseteq got'[t] \cup Below(ToSet(todo'[t])) \cup Below(passed'[t])
    BY <2>1, <2>2, <2>3, <2>4
  <2> QED
    BY <1>3, <1>5, <2>5, OthersGathered
<1> QED
  BY <1>4, <1>5

LEMMA GoOnGathered ==
  ASSUME TypeOK, Gathered, links' = links, NEW t \in Tasks,
         NEW d \in Blocks, NEW lost \in SUBSET Blocks,
         at[t] \in Downloading, todo[t] # <<>>, GoOn(t, d, lost),
         Current(t) \in lost \/ Current(t) = d
  PROVE  Gathered'
<1>1. /\ Tail(todo[t]) \in Seq(Blocks) /\ Children(d) \in Seq(Blocks)
      /\ ToSet(Children(d)) = links[d] /\ links[d] \in SUBSET Blocks
  BY CurrentType, ChildrenQueued DEF TypeOK, LinksTypeOK
<1>2. /\ todo'[t] = Tail(todo[t]) \o Children(d)
      /\ \A u \in Tasks \ {t} : todo'[u] = todo[u]
  BY DEF GoOn, TypeOK
<1>3. ToSet(todo'[t]) = ToSet(Tail(todo[t])) \cup links[d]
  BY <1>1, <1>2, QueueConcat
<1> QED
  BY <1>1, <1>2, <1>3, WalkGathered DEF GoOn

LEMMA SkipGathered ==
  ASSUME TypeOK, Gathered, links' = links, NEW t \in Tasks,
         at[t] \in Downloading, todo[t] # <<>>, Skip(t),
         Pins(t) \/ UNCHANGED got
  PROVE  Gathered'
<1> DEFINE lost == {Current(t)}
<1>1. /\ lost \in SUBSET Blocks /\ Current(t) \in lost /\ {} \in SUBSET Blocks
      /\ todo'[t] = Tail(todo[t])
      /\ \A u \in Tasks \ {t} : todo'[u] = todo[u]
  BY CurrentType DEF Skip, TypeOK
<1>2. ToSet(todo'[t]) = ToSet(Tail(todo[t])) \cup {}
  BY <1>1
<1> QED
  BY <1>1, <1>2, WalkGathered DEF Skip

(* The root is of the site, and what a block of the site links to is, too. *)
LEMMA SiteHolds ==
  ASSUME LinksTypeOK
  PROVE  /\ Root \in Site /\ Site \in SUBSET Blocks
         /\ \A b \in Site : links[b] \subseteq Site
BY BelowHolds, FetchAssumption, {Root} \in SUBSET Blocks DEF Site

(* The current block is read: it is gathered, its children are left to do. *)
LEMMA TakeGathered ==
  ASSUME TypeOK, DownloadCovers, Gathered, links' = links, NEW t \in Tasks,
         at[t] = "extracting", todo[t] # <<>>,
         NEW more \in Seq(Blocks),
         \/ ToSet(more) = links[Current(t)]
         \/ /\ more = <<>> /\ program[t] = "pin"
            /\ files[Current(t)] = "absent",
         todo' = [todo EXCEPT ![t] = more \o Tail(@)],
         got' = [got EXCEPT ![t] = @ \cup {Current(t)}],
         UNCHANGED <<program, at, passed>>
  PROVE  Gathered'
<1> DEFINE c == Current(t)
           rest == ToSet(Tail(todo[t]))
           gap == IF program[t] = "pin" THEN Below(passed[t]) ELSE {}
<1>1. LinksTypeOK
  BY DEF TypeOK, LinksTypeOK
<1>2. /\ c \in Blocks /\ Tail(todo[t]) \in Seq(Blocks)
      /\ ToSet(todo[t]) = {c} \cup rest
      /\ rest \in SUBSET Blocks
      /\ {c} \in SUBSET Blocks /\ links[c] \in SUBSET Blocks
      /\ passed[t] \in SUBSET Blocks
  BY CurrentType, QueueBlocks DEF TypeOK
<1>3. /\ got[t] \cup {c} \cup rest \subseteq Site
      /\ Site \subseteq got[t] \cup Below(ToSet(todo[t])) \cup gap
      /\ program[t] \in {"cli", "browser", "pin"}
  BY <1>2 DEF Gathered
<1>4. Below(ToSet(todo[t])) = {c} \cup Below(links[c]) \cup Below(rest)
  BY <1>1, <1>2, BelowUnion, BelowBlock
<1>5. /\ todo'[t] = more \o Tail(todo[t])
      /\ got'[t] = got[t] \cup {c}
      /\ \A u \in Tasks \ {t} : todo'[u] = todo[u] /\ got'[u] = got[u]
  BY DEF TypeOK
<1>6. ToSet(todo'[t]) = ToSet(more) \cup rest /\ ToSet(more) \in SUBSET Blocks
  BY <1>2, <1>5, QueueConcat, QueueBlocks
<1>7. Below(ToSet(todo'[t])) = Below(ToSet(more)) \cup Below(rest)
  BY <1>1, <1>2, <1>6, BelowUnion
<1>8. ToSet(more) \subseteq Site
  <2>1. CASE ToSet(more) = links[c]
    BY <1>1, <1>3, <2>1, SiteHolds
  <2>2. CASE more = <<>>
    BY <2>2, QueueEnds
  <2> QED
    BY <2>1, <2>2
<1>9. Site \subseteq got'[t] \cup Below(ToSet(todo'[t])) \cup gap
  <2>1. CASE ToSet(more) = links[c]
    BY <1>3, <1>4, <1>5, <1>7, <2>1
  <2>2. CASE program[t] = "pin" /\ files[c] = "absent"
    <3>1. Site \subseteq Present \cup Below(passed[t])
      BY DEF DownloadCovers
    <3>2. c \in Below(passed[t])
      BY <1>3, <2>2, <3>1 DEF Present
    <3>3. {c} \in SUBSET Below(passed[t])
      BY <3>2
    <3>4. Below({c}) \subseteq Below(passed[t])
      BY <1>1, <1>2, <3>3, BelowGrows
    <3>5. Below(links[c]) \subseteq gap
      BY <1>1, <1>2, <2>2, <3>4, BelowBlock
    <3> QED
      BY <1>3, <1>4, <1>5, <1>7, <3>5
  <2> QED
    BY <2>1, <2>2
<1>10. got'[t] \cup ToSet(todo'[t]) \subseteq Site
  BY <1>3, <1>5, <1>6, <1>8
<1> QED
  BY <1>3, <1>5, <1>9, <1>10, OthersGathered DEF Downloading

LEMMA NextGathered ==
  ASSUME TypeOK, Opened, DownloadCovers, Gathered, [Next]_vars
  PROVE  Gathered'
<1>1. links' = links
  BY StoreGrows
<1>2. LinksTypeOK
  BY DEF TypeOK, LinksTypeOK
<1>3. CASE UNCHANGED <<at, program, todo, passed, got>>
  BY <1>1, <1>3, BelowSame DEF Gathered
<1>4. CASE UNCHANGED vars
  BY <1>3, <1>4 DEF vars, fetchVars
<1>5. ASSUME NEW t \in Tasks, NEW p \in Programs(t), Start(t, p)
      PROVE  Gathered'
  <2>1. /\ at'[t] = "walking" /\ program'[t] = p /\ got'[t] = {}
        /\ todo'[t] = <<Root>>
        /\ \A u \in Tasks \ {t} :
             /\ at'[u] = at[u] /\ program'[u] = program[u]
             /\ todo'[u] = todo[u] /\ passed'[u] = passed[u] /\ got'[u] = got[u]
    BY <1>5 DEF Start, TypeOK, Gathered
  <2>2. p # "none"
    BY <1>5 DEF Programs
  <2>3. Site = Below(ToSet(todo'[t]))
    BY <2>1, QueueEnds, FetchAssumption DEF Site
  <2> QED
    BY <1>1, <2>1, <2>2, <2>3, OthersGathered DEF Downloading
<1>6. ASSUME NEW t \in Tasks, at[t] \in Downloading \ {"walking"}
      PROVE  todo[t] # <<>> /\ Current(t) \in Blocks
  BY <1>6, CurrentType DEF TypeOK
<1>7. ASSUME NEW t \in Tasks, Look(t)
      PROVE  Gathered'
  BY <1>1, <1>7, DownloadGathered DEF Look, TypeOK, Downloading
<1>8. ASSUME NEW t \in Tasks, Read(t)
      PROVE  Gathered'
  <2>1. at[t] \in Downloading \ {"walking"} /\ {} \in SUBSET Blocks
    BY <1>8 DEF Read, Downloading
  <2> QED
    BY <1>1, <1>6, <1>8, <2>1, GoOnGathered, SkipGathered DEF Read
<1>9. ASSUME NEW t \in Tasks, NEW d \in Blocks,
             AnswerKnown(t, d) \/ AnswerRefused(t, d)
      PROVE  Gathered'
  <2>1. at[t] \in Downloading \ {"walking"}
    BY <1>9 DEF AnswerKnown, AnswerRefused, Answers, Downloading
  <2>2. todo[t] # <<>> /\ {Current(t)} \in SUBSET Blocks
    BY <1>6, <2>1
  <2>3. Lost(t, d) \in SUBSET Blocks /\ (Current(t) \in Lost(t, d) \/ Current(t) = d)
    BY <2>2 DEF Lost
  <2>4. Forget(t) \/ GoOn(t, d, Lost(t, d)) \/ GoOn(t, d, {Current(t)})
    BY <1>9 DEF AnswerKnown, AnswerRefused
  <2> QED
    BY <1>1, <2>1, <2>2, <2>3, <2>4, ForgetGathered, GoOnGathered
<1>10. ASSUME NEW t \in Tasks, NEW d \in Blocks, AnswerStored(t, d)
       PROVE  Gathered'
  BY <1>1, <1>10, DownloadGathered
     DEF AnswerStored, Answers, TypeOK, Downloading
<1>11. ASSUME NEW t \in Tasks, Stored(t)
       PROVE  Gathered'
  <2>1. at[t] = "storing"
    BY <1>11 DEF Stored, PutWrites, TypeOK
  <2> DEFINE d == job[t].block
  <2>2. at[t] \in Downloading \ {"walking"} /\ d \in Blocks
    BY <2>1 DEF Downloading, TypeOK, StoreTypeOK
  <2>3. todo[t] # <<>> /\ {Current(t)} \in SUBSET Blocks
    BY <1>6, <2>2
  <2>4. Lost(t, d) \in SUBSET Blocks /\ (Current(t) \in Lost(t, d) \/ Current(t) = d)
    BY <2>3 DEF Lost
  <2>5. GoOn(t, d, Lost(t, d))
    BY <1>11 DEF Stored
  <2> HIDE DEF d
  <2> QED
    BY <1>1, <2>2, <2>3, <2>4, <2>5, GoOnGathered
<1>12. ASSUME NEW t \in Tasks, WalkEnds(t)
       PROVE  Gathered'
  <2>1. /\ got'[t] = got[t] /\ program'[t] = program[t] /\ passed'[t] = passed[t]
        /\ at'[t] = IF program[t] = "node" THEN "done" ELSE "extracting"
        /\ todo'[t] = IF program[t] = "node" THEN <<>> ELSE <<Root>>
        /\ \A u \in Tasks \ {t} :
             /\ at'[u] = at[u] /\ program'[u] = program[u]
             /\ todo'[u] = todo[u] /\ passed'[u] = passed[u] /\ got'[u] = got[u]
    BY <1>12 DEF WalkEnds, TypeOK, Gathered, Downloading
  <2>2. program[t] \in {"cli", "pin", "browser", "node"}
    BY <1>12 DEF WalkEnds, TypeOK, Gathered, Downloading
  <2>3. ToSet(<<Root>>) = {Root} /\ Site = Below({Root}) /\ Root \in Site
    BY <1>2, QueueEnds, FetchAssumption, SiteHolds DEF Site
  <2>4. CASE program[t] = "node"
    <3>1. Below(ToSet(todo[t])) = {}
      BY <1>2, <1>12, QueueEnds, BelowNothing DEF WalkEnds
    <3>2. Site \subseteq got[t] \cup Below(passed[t])
      BY <1>12, <2>4, <3>1 DEF WalkEnds, Gathered, Downloading
    <3> QED
      BY <1>1, <2>1, <2>4, <3>2, OthersGathered DEF Downloading
  <2>5. CASE program[t] # "node"
    <3>0. got[t] = {}
      BY <1>12, <2>5 DEF WalkEnds, Gathered, Downloading
    <3>1. /\ at'[t] = "extracting" /\ todo'[t] = <<Root>>
          /\ program'[t] \in {"cli", "browser", "pin"}
      BY <2>1, <2>2, <2>5
    <3>2. got'[t] \cup ToSet(todo'[t]) \subseteq Site
      BY <2>1, <2>3, <3>0, <3>1
    <3>3. Site \subseteq got'[t] \cup Below(ToSet(todo'[t]))
      BY <2>3, <3>1
    <3> QED
      BY <1>1, <2>1, <3>1, <3>2, <3>3, OthersGathered DEF Downloading
  <2> QED
    BY <2>4, <2>5
<1>13. ASSUME NEW t \in Tasks, Extract(t)
       PROVE  Gathered'
  <2>1. CASE files[Current(t)] = "whole"
    <3>1. Current(t) \in Blocks
      BY <1>13, CurrentType DEF Extract
    <3>2. Children(Current(t)) \in Seq(Blocks)
          /\ ToSet(Children(Current(t))) = links[Current(t)]
      BY <1>2, <3>1, ChildrenQueued
    <3> QED
      BY <1>1, <1>13, <2>1, <3>2, TakeGathered DEF Extract
  <2>2. CASE files[Current(t)] # "whole"
    BY <1>1, <1>13, <2>2, ForgetGathered DEF Extract
  <2> QED
    BY <2>1, <2>2
<1>14. ASSUME NEW t \in Tasks, Collect(t)
       PROVE  Gathered'
  <2> DEFINE c == Current(t)
             more == IF files[c] = "whole" THEN Children(c) ELSE <<>>
  <2>1. CASE files[c] = "torn"
    BY <1>1, <1>14, <2>1, ForgetGathered DEF Collect
  <2>2. CASE files[c] # "torn"
    <3>1. c \in Blocks
      BY <1>14, CurrentType DEF Collect
    <3>2. Children(c) \in Seq(Blocks) /\ ToSet(Children(c)) = links[c]
      BY <1>2, <3>1, ChildrenQueued
    <3>3. files[c] = "whole" \/ files[c] = "absent"
      BY <2>2, <3>1 DEF TypeOK, StoreTypeOK
    <3>4. /\ more \in Seq(Blocks)
          /\ \/ ToSet(more) = links[c]
             \/ more = <<>> /\ program[t] = "pin" /\ files[c] = "absent"
      BY <1>14, <3>2, <3>3, QueueEnds DEF Collect
    <3>5. /\ at[t] = "extracting" /\ todo[t] # <<>>
          /\ todo' = [todo EXCEPT ![t] = more \o Tail(@)]
          /\ got' = [got EXCEPT ![t] = @ \cup {c}]
          /\ UNCHANGED <<program, at, passed>>
      BY <1>14, <2>2 DEF Collect
    <3> HIDE DEF more
    <3> QED
      BY <1>1, <3>4, <3>5, TakeGathered
  <2> QED
    BY <2>1, <2>2
<1>15. ASSUME NEW t \in Tasks, ExtractEnds(t)
       PROVE  Gathered'
  <2>1. /\ at[t] = "extracting" /\ at'[t] = "done"
        /\ UNCHANGED <<program, todo, passed, got>>
        /\ \A u \in Tasks \ {t} : at'[u] = at[u]
    BY <1>15 DEF ExtractEnds, TypeOK
  <2>2. Below(ToSet(todo[t])) = {}
    BY <1>2, <1>15, QueueEnds, BelowNothing DEF ExtractEnds
  <2>3. /\ program[t] \in {"cli", "browser", "pin"}
        /\ got[t] \subseteq Site
        /\ Site \subseteq got[t] \cup
             (IF program[t] = "pin" THEN Below(passed[t]) ELSE {})
    BY <2>1, <2>2 DEF Gathered
  <2>4. \A u \in Tasks \ {t} :
          /\ at'[u] = at[u] /\ program'[u] = program[u]
          /\ todo'[u] = todo[u] /\ passed'[u] = passed[u] /\ got'[u] = got[u]
    BY <2>1
  <2>5. /\ program'[t] = program[t] /\ got'[t] = got[t]
        /\ passed'[t] = passed[t] /\ at'[t] = "done"
    BY <2>1
  <2>6. program[t] # "pin" => got[t] = Site
    BY <2>3
  <2>7. program[t] = "pin" => Site \subseteq got[t] \cup Below(passed[t])
    BY <2>3
  <2> QED
    BY <1>1, <2>4, <2>5, <2>6, <2>7, OthersGathered DEF Downloading
<1>16. ASSUME NEW t \in Tasks, Opens(t)
       PROVE  Gathered'
  BY <1>3, <1>16 DEF Opens, fetchVars
<1>17. ASSUME NEW t \in Tasks, Crashes(t)
       PROVE  Gathered'
  BY <1>1, <1>17, ForgetGathered DEF Crashes
<1>18. ASSUME NEW t \in Tasks, Unanswered(t)
       PROVE  Gathered'
  <2>1. at[t] \in Downloading \ {"walking"}
    BY <1>18 DEF Unanswered, Downloading
  <2> QED
    BY <1>1, <1>6, <1>18, <2>1, ForgetGathered, SkipGathered DEF Unanswered
<1>19. ASSUME NEW t \in Tasks, Step(t)
       PROVE  Gathered'
  BY <1>7, <1>8, <1>9, <1>10, <1>11, <1>12, <1>13, <1>14, <1>15, <1>16,
     <1>18, <1>19 DEF Step
<1> QED
  BY <1>4, <1>5, <1>17, <1>19 DEF Next

-----------------------------------------------------------------------------
(* The inductive invariant: what was downloaded, what is still queued and  *)
(* what was given up make up the site, and so do, later, what was read and *)
(* what is still on the stack.                                             *)
THEOREM InductiveInvariant == Spec => []IInv
<1>1. Init => Opened /\ DownloadCovers /\ Gathered
  BY DEF Init, StoreInit, Opened, DownloadCovers, Gathered, Downloading
<1>2. IInv /\ [Next]_vars => IInv'
  BY NextType, StoreGrows, NextCovers, NextGathered DEF IInv
<1> QED
  BY <1>1, <1>2, InitType, PTL DEF Spec, IInv

(* The three copies of the download loop forget nothing, whatever the      *)
(* others do to the store meanwhile: each block of the site is there,      *)
(* below what is queued, or below a block the loop went on without.        *)
THEOREM DownloadCoversSite == Spec => []DownloadCovers
<1>1. IInv => DownloadCovers
  BY DEF IInv
<1> QED
  BY <1>1, InductiveInvariant, PTL

(* An extraction that succeeds has read the whole site, and a pin that     *)
(* succeeds holds it but for what lies below blocks its download went on   *)
(* without, however many blocks the site has and whoever else fetches.  *)
THEOREM ExtractionIsComplete == Spec => []ExtractsAll
<1>1. IInv => ExtractsAll
  BY DEF IInv, Gathered, ExtractsAll
<1> QED
  BY <1>1, InductiveInvariant, PTL
=============================================================================
