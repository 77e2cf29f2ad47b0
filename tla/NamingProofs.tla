---------------------------- MODULE NamingProofs ----------------------------
(***************************************************************************)
(* The breadth-first search of the web of trust finds the nearest entry,   *)
(* in any graph of trust: what WotResolver::resolve promises, proved of    *)
(* the loop of resolve_wot.                                                *)
(***************************************************************************)
EXTENDS Naming, FiniteSetTheorems, WellFoundedInduction, TLAPS

(***************************************************************************)
(* Induction on a bounded number of turns, and the function that a         *)
(* recursion on it defines.                                                *)
(***************************************************************************)
LEMMA LeastNumber ==
  ASSUME NEW S \in SUBSET Nat, S # {}
  PROVE  \E n \in S : \A m \in S : n <= m
<1> DEFINE T == {1..n : n \in S}
<1>1. T \subseteq FiniteSubsetsOf(Nat) /\ T # {}
  <2>1. ASSUME NEW n \in S
        PROVE  1..n \in FiniteSubsetsOf(Nat)
    <3>1. IsFiniteSet(1..n)
      BY FS_Interval
    <3>2. QED
      BY <3>1 DEF FiniteSubsetsOf
  <2>2. QED
    BY <2>1
<1>2. PICK x \in T : \A y \in T : <<y, x>> \notin StrictSubsetOrdering(Nat)
  BY <1>1, WFMin, FS_StrictSubsetOrderingWellFounded
<1>3. PICK n \in S : x = 1..n
  BY <1>2
<1>4. ASSUME NEW m \in S, ~(n <= m)
      PROVE  FALSE
  <2>1. 1..m \in T /\ 1..m \subseteq 1..n /\ n \in 1..n /\ n \notin 1..m
    BY <1>4
  <2>2. <<1..m, 1..n>> \in StrictSubsetOrdering(Nat)
    BY <2>1 DEF StrictSubsetOrdering
  <2>3. QED
    BY <1>2, <1>3, <2>1, <2>2
<1>5. QED
  BY <1>4

LEMMA AllReached ==
  ASSUME NEW N \in Nat, NEW T, 0 \in T, \A i \in 1..N : i - 1 \in T => i \in T
  PROVE  \A i \in 0..N : i \in T
<1> DEFINE missed == {i \in 0..N : i \notin T}
<1>1. SUFFICES ASSUME missed # {} PROVE FALSE
  OBVIOUS
<1>2. missed \in SUBSET Nat
  OBVIOUS
<1>3. PICK n \in missed : \A m \in missed : n <= m
  BY <1>1, <1>2, LeastNumber
<1>4. n \in 1..N
  BY <1>3
<1>5. n - 1 \in 0..N /\ ~(n <= n - 1)
  BY <1>4
<1>6. n - 1 \in T
  BY <1>3, <1>5
<1>7. QED
  BY <1>3, <1>4, <1>6

(* F takes a value and the number of the step to the next value.           *)
Unrolls(f, N, S, s, F) ==
  /\ f \in [0..N -> S]
  /\ f[0] = s
  /\ \A i \in 1..N : f[i] = F[<<f[i - 1], i>>]

LEMMA RecursionExists ==
  ASSUME NEW N \in Nat, NEW S, NEW s \in S, NEW F \in [S \X (1..N) -> S]
  PROVE  \E f : Unrolls(f, N, S, s, F)
<1> DEFINE Runs(f, n) == /\ f \in [0..n -> S]
                         /\ f[0] = s
                         /\ \A i \in 1..n : f[i] = F[<<f[i - 1], i>>]
           T == {n \in 0..N : \E f : Runs(f, n)}
<1>1. 0 \in T
  <2> DEFINE f == [i \in 0..0 |-> s]
  <2>1. f \in [0..0 -> S] /\ f[0] = s /\ 1..0 = {} /\ 0 \in 0..N
    OBVIOUS
  <2> HIDE DEF f
  <2>2. QED
    BY <2>1
<1>2. ASSUME NEW n \in 1..N, n - 1 \in T PROVE n \in T
  <2>1. PICK g : Runs(g, n - 1)
    BY <1>2
  <2> DEFINE f == [i \in 0..n |-> IF i = n THEN F[<<g[n - 1], n>>] ELSE g[i]]
  <2>2. g[n - 1] \in S /\ F[<<g[n - 1], n>>] \in S
    BY <2>1
  <2>3. f \in [0..n -> S]
    BY <2>1, <2>2
  <2>4. f[0] = s
    BY <2>1
  <2>5. ASSUME NEW i \in 1..n PROVE f[i] = F[<<f[i - 1], i>>]
    <3>1. i - 1 \in 0..n /\ i - 1 # n /\ f[i - 1] = g[i - 1]
      OBVIOUS
    <3>2. CASE i = n
      BY <3>1, <3>2
    <3>3. CASE i # n
      BY <2>1, <3>1, <3>3
    <3>4. QED
      BY <3>2, <3>3
  <2> HIDE DEF f
  <2>6. QED
    BY <2>3, <2>4, <2>5
<1> HIDE DEF T
<1>3. N \in T
  BY <1>1, <1>2, AllReached
<1>4. QED
  BY <1>3 DEF T, Unrolls

-----------------------------------------------------------------------------
(***************************************************************************)
(* Types, and the recursive definitions by their first value and step.     *)
(***************************************************************************)
Given == [to: People, score: Int]

NamingTypeOK ==
  /\ trust \in [People -> Seq(Given)]
  /\ lists \in [Peers -> Entries \cup {None, Broken}]
  /\ petname \in Entries \cup {None}

States == [queue: Seq(People \X Nat), visited: SUBSET People,
           answer: Entries \cup {None}]

LEMMA NamingInitType == NamingInit => NamingTypeOK
  BY DEF NamingInit, NamingTypeOK

LEMMA NamingNextType == NamingTypeOK /\ [NamingNext]_namingVars => NamingTypeOK'
<1> SUFFICES ASSUME NamingTypeOK, [NamingNext]_namingVars PROVE NamingTypeOK'
  OBVIOUS
<1>1. ASSUME NEW from \in People, NEW to \in People, NEW score \in Int,
             AddTrust(from, to, score)
      PROVE  NamingTypeOK'
  <2>1. [to |-> to, score |-> score] \in Given
    BY DEF Given
  <2>2. Append(trust[from], [to |-> to, score |-> score]) \in Seq(Given)
    BY <2>1 DEF NamingTypeOK
  <2>3. QED
    BY <1>1, <2>2 DEF AddTrust, NamingTypeOK
<1>2. ASSUME NEW from \in People, NEW to \in People, NEW score \in Scores,
             AddTrustEdge(from, to, score, TRUE)
      PROVE  NamingTypeOK'
  <2>1. Clamped(score) \in Int
    BY NamingAssumption DEF Clamped
  <2>2. QED
    BY <1>1, <1>2, <2>1 DEF AddTrustEdge
<1>3. ASSUME NEW p \in Peers, NEW e \in Entries \cup {None, Broken},
             IngestPeerPetnames(p, e)
      PROVE  NamingTypeOK'
  BY <1>3 DEF IngestPeerPetnames, NamingTypeOK
<1>4. ASSUME NEW e \in Entries \cup {None}, AssignOrRemove(e)
      PROVE  NamingTypeOK'
  BY <1>4 DEF AssignOrRemove, NamingTypeOK
<1>5. CASE UNCHANGED namingVars
  BY <1>5 DEF namingVars, NamingTypeOK
<1>6. QED
  BY <1>1, <1>2, <1>3, <1>4, <1>5, NamingAssumption DEF NamingNext

LEMMA VisitType ==
  ASSUME NEW s \in States, NEW e \in Given, NEW d \in Nat
  PROVE  Visit(s, e, d) \in States
<1>1. Append(s.queue, <<e.to, d + 1>>) \in Seq(People \X Nat)
  BY DEF States, Given
<1>2. s.visited \cup {e.to} \in SUBSET People
  BY DEF States, Given
<1>3. QED
  BY <1>1, <1>2 DEF Visit, States

LEMMA VisitsSteps ==
  ASSUME NEW s \in States, NEW edges \in Seq(Given), NEW d \in Nat
  PROVE  /\ Visits(s, edges, d) \in [0..Len(edges) -> States]
         /\ Visits(s, edges, d)[0] = s
         /\ \A i \in 1..Len(edges) :
              Visits(s, edges, d)[i] = Visit(Visits(s, edges, d)[i - 1], edges[i], d)
<1> DEFINE N == Len(edges)
           F == [p \in States \X (1..N) |-> Visit(p[1], edges[p[2]], d)]
           Is(f) == f = [i \in 0..N |-> IF i = 0 THEN s
                                        ELSE Visit(f[i - 1], edges[i], d)]
<1>1. N \in Nat
  OBVIOUS
<1>2. F \in [States \X (1..N) -> States]
  BY VisitType
<1>3. \E f : Unrolls(f, N, States, s, F)
  <2> HIDE DEF F, N
  <2>1. QED
    BY <1>1, <1>2, RecursionExists
<1> PICK f : Unrolls(f, N, States, s, F)
  BY <1>3
<1>4. ASSUME NEW i \in 1..N PROVE f[i] = Visit(f[i - 1], edges[i], d)
  <2>1. f[i - 1] \in States
    BY DEF Unrolls
  <2>2. <<f[i - 1], i>> \in States \X (1..N)
    BY <2>1
  <2>3. F[<<f[i - 1], i>>] = Visit(f[i - 1], edges[i], d)
    BY <2>2
  <2>4. QED
    BY <2>3 DEF Unrolls
<1>5. \A i \in 0..N : f[i] = IF i = 0 THEN s ELSE Visit(f[i - 1], edges[i], d)
  BY <1>1, <1>4 DEF Unrolls
<1>6. Is(f)
  BY <1>5 DEF Unrolls
<1>7. Visits(s, edges, d) = CHOOSE g : Is(g)
  BY DEF Visits
<1> HIDE DEF Is
<1>8. Is(Visits(s, edges, d))
  BY <1>6, <1>7
<1> USE DEF Is
<1> DEFINE v == Visits(s, edges, d)
<1>9. v = [i \in 0..N |-> IF i = 0 THEN s ELSE Visit(v[i - 1], edges[i], d)]
  BY <1>8
<1> HIDE DEF v
<1>10. /\ v[0] = s
       /\ \A i \in 1..N : v[i] = Visit(v[i - 1], edges[i], d)
  BY <1>1, <1>9
<1> DEFINE T == {i \in 0..N : v[i] \in States}
<1>11. 0 \in T
  BY <1>1, <1>10
<1>12. ASSUME NEW i \in 1..N, i - 1 \in T PROVE i \in T
  BY <1>10, <1>12, VisitType
<1>13. \A i \in 0..N : i \in T
  <2> HIDE DEF T, N
  <2>1. QED
    BY <1>1, <1>11, <1>12, AllReached
<1>14. v \in [0..N -> States]
  <2>1. v = [i \in 0..N |-> v[i]]
    BY <1>9
  <2>2. QED
    BY <1>13, <2>1
<1>15. QED
  BY <1>10, <1>14 DEF v

LEMMA TurnType ==
  ASSUME NamingTypeOK, NEW s \in States
  PROVE  Turn(s) \in States
<1>1. CASE s.answer # None \/ s.queue = <<>>
  BY <1>1 DEF Turn
<1>2. CASE ~(s.answer # None \/ s.queue = <<>>)
  <2> DEFINE who == Head(s.queue)[1]
             depth == Head(s.queue)[2]
             rest == [s EXCEPT !.queue = Tail(@)]
  <2>1. Head(s.queue) \in People \X Nat /\ Tail(s.queue) \in Seq(People \X Nat)
    BY <1>2 DEF States
  <2>2. rest \in States
    BY <2>1 DEF States
  <2>3. trust[who] \in Seq(Given) /\ depth \in Nat
    BY <2>1 DEF NamingTypeOK
  <2>4. Visits(rest, trust[who], depth)[Len(trust[who])] \in States
    <3>1. Len(trust[who]) \in 0..Len(trust[who])
      BY <2>3
    <3> HIDE DEF who, depth, rest
    <3>2. QED
      BY <2>2, <2>3, <3>1, VisitsSteps
  <2>5. Turn(s) = IF depth >= MaxDepth THEN rest
                  ELSE Visits(rest, trust[who], depth)[Len(trust[who])]
    BY <1>2 DEF Turn
  <2> HIDE DEF who, depth, rest
  <2>6. QED
    BY <2>2, <2>4, <2>5
<1>3. QED
  BY <1>1, <1>2

LEMMA PeopleFinite == IsFiniteSet(People) /\ Cardinality(People) \in Nat
<1>1. IsFiniteSet(People)
  BY NamingAssumption, FS_AddElement DEF People
<1>2. QED
  BY <1>1, FS_CardinalityType

LEMMA SearchSteps ==
  ASSUME NamingTypeOK
  PROVE  /\ Search[0] = SearchInit
         /\ \A n \in 1..Cardinality(People) : Search[n] = Turn(Search[n - 1])
<1> DEFINE N == Cardinality(People)
           F == [p \in States \X (1..N) |-> Turn(p[1])]
           Is(f) == f = [n \in 0..N |-> IF n = 0 THEN SearchInit
                                        ELSE Turn(f[n - 1])]
<1>1. N \in Nat
  BY PeopleFinite
<1>2. F \in [States \X (1..N) -> States]
  BY TurnType
<1>3. SearchInit \in States
  BY DEF SearchInit, States, People
<1>4. \E f : Unrolls(f, N, States, SearchInit, F)
  <2> HIDE DEF F, N
  <2>1. QED
    BY <1>1, <1>2, <1>3, RecursionExists
<1> PICK f : Unrolls(f, N, States, SearchInit, F)
  BY <1>4
<1>5. ASSUME NEW n \in 1..N PROVE f[n] = Turn(f[n - 1])
  <2>1. f[n - 1] \in States
    BY <1>1 DEF Unrolls
  <2>2. <<f[n - 1], n>> \in States \X (1..N)
    BY <2>1
  <2>3. F[<<f[n - 1], n>>] = Turn(f[n - 1])
    BY <2>2
  <2>4. QED
    BY <2>3 DEF Unrolls
<1>6. \A n \in 0..N : f[n] = IF n = 0 THEN SearchInit ELSE Turn(f[n - 1])
  BY <1>1, <1>5 DEF Unrolls
<1>7. Is(f)
  BY <1>6 DEF Unrolls
<1>8. Search = CHOOSE g : Is(g)
  BY DEF Search
<1> HIDE DEF Is
<1>9. Is(Search)
  BY <1>7, <1>8
<1> USE DEF Is
<1>10. Search = [n \in 0..N |-> IF n = 0 THEN SearchInit ELSE Turn(Search[n - 1])]
  BY <1>9
<1>11. QED
  BY <1>1, <1>10

(* Who is trusted by somebody in X, and X itself.                          *)
Onward(X) ==
  X \cup {p \in People : \E q \in X : \E i \in DOMAIN trust[q] :
            trust[q][i].to = p /\ trust[q][i].score > 0}

LEMMA WithinSteps ==
  /\ Within \in [0..MaxDepth -> SUBSET People]
  /\ Within[0] = {Me}
  /\ \A n \in 1..MaxDepth : Within[n] = Onward(Within[n - 1])
<1> DEFINE N == MaxDepth
           S == SUBSET People
           F == [p \in S \X (1..N) |-> Onward(p[1])]
           Is(f) == f = [n \in 0..N |-> IF n = 0 THEN {Me} ELSE Onward(f[n - 1])]
<1>1. N \in Nat /\ {Me} \in S
  BY NamingAssumption DEF People
<1>2. \A X \in S : Onward(X) \in S
  BY DEF Onward
<1>3. F \in [S \X (1..N) -> S]
  BY <1>2
<1>4. \E f : Unrolls(f, N, S, {Me}, F)
  <2> HIDE DEF F, N, S
  <2>1. QED
    BY <1>1, <1>3, RecursionExists
<1> PICK f : Unrolls(f, N, S, {Me}, F)
  BY <1>4
<1>5. ASSUME NEW n \in 1..N PROVE f[n] = Onward(f[n - 1])
  <2>1. f[n - 1] \in S
    BY <1>1 DEF Unrolls
  <2>2. <<f[n - 1], n>> \in S \X (1..N)
    BY <2>1
  <2>3. F[<<f[n - 1], n>>] = Onward(f[n - 1])
    BY <2>2
  <2>4. QED
    BY <2>3 DEF Unrolls
<1>6. \A n \in 0..N : f[n] = IF n = 0 THEN {Me} ELSE Onward(f[n - 1])
  BY <1>1, <1>5 DEF Unrolls
<1>7. Is(f)
  BY <1>6 DEF Unrolls
<1>8. Within = CHOOSE g : Is(g)
  BY DEF Within, Onward
<1> HIDE DEF Is
<1>9. Is(Within)
  BY <1>7, <1>8
<1> USE DEF Is
<1>10. Within = [n \in 0..N |-> IF n = 0 THEN {Me} ELSE Onward(Within[n - 1])]
  BY <1>9
<1>11. /\ Within[0] = {Me}
       /\ \A n \in 1..N : Within[n] = Onward(Within[n - 1])
  <2>1. \A n \in 0..N :
          Within[n] = IF n = 0 THEN {Me} ELSE Onward(Within[n - 1])
    BY <1>10, Zenon
  <2>2. QED
    BY <1>1, <2>1
<1> DEFINE T == {n \in 0..N : Within[n] \in S}
<1>12. 0 \in T
  BY <1>1, <1>11
<1>13. ASSUME NEW n \in 1..N, n - 1 \in T PROVE n \in T
  BY <1>2, <1>11, <1>13
<1>14. \A n \in 0..N : n \in T
  <2> HIDE DEF T, N
  <2>1. QED
    BY <1>1, <1>12, <1>13, AllReached
<1>15. Within \in [0..N -> S]
  <2>1. Within = [n \in 0..N |-> Within[n]]
    BY <1>10
  <2>2. QED
    BY <1>14, <2>1
<1>16. QED
  BY <1>11, <1>15

LEMMA WithinGrows ==
  ASSUME NEW m \in 0..MaxDepth, NEW n \in m..MaxDepth
  PROVE  Within[m] \subseteq Within[n]
<1> DEFINE N == MaxDepth - m
           T == {i \in 0..N : Within[m] \subseteq Within[m + i]}
<1>1. N \in Nat /\ n - m \in 0..N /\ m + (n - m) = n /\ m + 0 = m
  BY NamingAssumption
<1>2. 0 \in T
  BY <1>1
<1>3. ASSUME NEW i \in 1..N, i - 1 \in T PROVE i \in T
  <2>1. m + i \in 1..MaxDepth /\ (m + i) - 1 = m + (i - 1)
    BY NamingAssumption
  <2>2. Within[m + i] = Onward(Within[m + (i - 1)])
    BY <2>1, WithinSteps
  <2>3. Within[m + (i - 1)] \subseteq Within[m + i]
    BY <2>2 DEF Onward
  <2>4. QED
    BY <1>3, <2>3
<1>4. \A i \in 0..N : i \in T
  <2> HIDE DEF T, N
  <2>1. QED
    BY <1>1, <1>2, <1>3, AllReached
<1>5. n - m \in T
  BY <1>1, <1>4
<1>6. QED
  BY <1>1, <1>5

-----------------------------------------------------------------------------
(***************************************************************************)
(* The search between two turns and within one.  D are the peers taken     *)
(* from the queue so far, k is the distance the search has reached: all    *)
(* who are no farther were visited, and the queue has only those at        *)
(* distance k and, behind them, at k + 1, each with its true distance.     *)
(***************************************************************************)
QueueOK(q, D, V, k) ==
  /\ \A j \in 1..Len(q) :
       /\ q[j][1] \in V \ D
       /\ q[j][2] \in {k, k + 1} /\ q[j][2] <= MaxDepth
       /\ q[j][1] \in Within[q[j][2]]
       /\ q[j][2] > 0 => q[j][1] \notin Within[q[j][2] - 1]
  /\ \A i, j \in 1..Len(q) : i < j => /\ q[i][2] <= q[j][2]
                                      /\ q[i][1] # q[j][1]

Searching(s, D, k) ==
  /\ s \in States
  /\ s.answer = None
  /\ k \in 0..MaxDepth
  /\ Me \in s.visited /\ D \subseteq s.visited
  /\ s.visited \subseteq Within[MaxDepth]
  /\ Within[k] \subseteq s.visited
  /\ \A p \in s.visited : Published(p) \notin Entries
  /\ QueueOK(s.queue, D, s.visited, k)

Followed(p, V) ==
  \A i \in DOMAIN trust[p] : trust[p][i].score > 0 => trust[p][i].to \in V

Waits(q, p) == \E j \in 1..Len(q) : q[j][1] = p

(* Who was visited has been looked at, but for those in the queue and      *)
(* those in X; or else nobody else is within the depth.                    *)
LookedAt(s, X) ==
  \A p \in s.visited \ X :
    \/ Followed(p, s.visited)
    \/ Waits(s.queue, p)
    \/ Within[MaxDepth] \subseteq s.visited

Between(s, D, k) == Searching(s, D, k) /\ LookedAt(s, {})

Amid(s, D, k, who) ==
  /\ Searching(s, D, k)
  /\ k < MaxDepth
  /\ who \in Within[k] \cap D
  /\ LookedAt(s, {who})

Nearest(a) ==
  \E n \in 1..MaxDepth : /\ Knowing(n - 1) = {}
                         /\ \E p \in Knowing(n) : a = Published(p)

Found(s) == s \in States /\ s.answer # None /\ Nearest(s.answer)

Over(s) == s \in States /\ s.answer = None /\ s.queue = <<>> /\ Knowing(MaxDepth) = {}

(* One more at the end of the queue.                                       *)
LEMMA QueueGrows ==
  ASSUME NEW q \in Seq(People \X Nat), NEW D, NEW V, NEW k \in Nat, k < MaxDepth,
         QueueOK(q, D, V, k), D \subseteq V,
         NEW p \in People, p \notin V, p \in Within[k + 1], p \notin Within[k]
  PROVE  /\ QueueOK(Append(q, <<p, k + 1>>), D, V \cup {p}, k)
         /\ Waits(Append(q, <<p, k + 1>>), p)
         /\ \A x : Waits(q, x) => Waits(Append(q, <<p, k + 1>>), x)
<1> DEFINE e == <<p, k + 1>>
           r == Append(q, e)
<1>1. e[1] = p /\ e[2] = k + 1 /\ e \in People \X Nat
  OBVIOUS
<1> HIDE DEF e
<1>2. /\ Len(r) = Len(q) + 1 /\ r[Len(q) + 1] = e /\ Len(q) \in Nat
      /\ \A j \in 1..Len(q) : r[j] = q[j]
  BY <1>1
<1>3. \A j \in 1..Len(r) : j \in 1..Len(q) \/ j = Len(q) + 1
  BY <1>2
<1> HIDE DEF r
<1>4. ASSUME NEW j \in 1..Len(r)
      PROVE  /\ r[j][1] \in (V \cup {p}) \ D
             /\ r[j][2] \in {k, k + 1} /\ r[j][2] <= MaxDepth
             /\ r[j][1] \in Within[r[j][2]]
             /\ r[j][2] > 0 => r[j][1] \notin Within[r[j][2] - 1]
  <2>1. CASE j \in 1..Len(q)
    BY <1>2, <2>1 DEF QueueOK
  <2>2. CASE j = Len(q) + 1
    <3>1. r[j][1] = p /\ r[j][2] = k + 1 /\ (k + 1) - 1 = k /\ k + 1 <= MaxDepth
      BY <1>1, <1>2, <2>2, NamingAssumption
    <3>2. QED
      BY <3>1
  <2>3. QED
    BY <1>3, <2>1, <2>2
<1>5. ASSUME NEW i \in 1..Len(r), NEW j \in 1..Len(r), i < j
      PROVE  r[i][2] <= r[j][2] /\ r[i][1] # r[j][1]
  <2>1. i \in 1..Len(q) /\ r[i] = q[i]
    BY <1>2, <1>3, <1>5
  <2>2. CASE j \in 1..Len(q)
    BY <1>2, <1>5, <2>1, <2>2 DEF QueueOK
  <2>3. CASE j = Len(q) + 1
    <3>1. r[j][1] = p /\ r[j][2] = k + 1
      BY <1>1, <1>2, <2>3
    <3>2. q[i][1] \in V /\ q[i][2] \in {k, k + 1}
      BY <2>1 DEF QueueOK
    <3>3. QED
      BY <2>1, <3>1, <3>2
  <2>4. QED
    BY <1>3, <2>2, <2>3
<1>6. Waits(r, p)
  BY <1>1, <1>2 DEF Waits
<1>7. \A x : Waits(q, x) => Waits(r, x)
  BY <1>2 DEF Waits
<1>8. QED
  BY <1>4, <1>5, <1>6, <1>7 DEF QueueOK, r, e

LEMMA NoneIsNoEntry == None \notin Entries
<1>1. \A k : Entry(k).is = "key"
  BY DEF Entry
<1>2. None.is = "none"
  BY DEF None
<1>3. QED
  BY <1>1, <1>2 DEF Entries

(* One edge.                                                               *)
LEMMA VisitKeeps ==
  ASSUME NamingTypeOK, NEW s, NEW D, NEW k, NEW who, Amid(s, D, k, who),
         NEW i \in 1..Len(trust[who])
  PROVE  LET t == Visit(s, trust[who][i], k) IN
         \/ Found(t)
         \/ /\ Amid(t, D, k, who)
            /\ s.visited \subseteq t.visited
            /\ trust[who][i].score > 0 => trust[who][i].to \in t.visited
<1> DEFINE e == trust[who][i]
           t == Visit(s, e, k)
           p == e.to
<1>1. /\ s \in States /\ s.answer = None /\ k \in Nat /\ k < MaxDepth
      /\ k + 1 \in 1..MaxDepth /\ (k + 1) - 1 = k
      /\ who \in People /\ who \in Within[k] /\ who \in D
  BY NamingAssumption, WithinSteps DEF Amid, Searching
<1>2. trust[who] \in Seq(Given) /\ i \in DOMAIN trust[who]
  BY <1>1 DEF NamingTypeOK
<1>3. e \in Given /\ p \in People /\ e.score \in Int
  <2>1. e \in Given
    BY <1>2
  <2> HIDE DEF e
  <2>2. QED
    BY <2>1 DEF Given
<1>4. t \in States
  BY <1>1, <1>3, VisitType
<1>5. trust[who][i].to = p /\ trust[who][i].score = e.score /\ e = trust[who][i]
  OBVIOUS
<1> HIDE DEF e, t, p
<1>6. CASE e.score <= 0 \/ p \in s.visited
  <2>1. t = s
    BY <1>6 DEF Visit, t, p
  <2>2. e.score > 0 => p \in s.visited
    BY <1>3, <1>6
  <2>3. QED
    BY <1>5, <2>1, <2>2 DEF t
<1>7. CASE ~(e.score <= 0 \/ p \in s.visited)
  <2>1. t = [visited |-> s.visited \cup {p},
             answer |-> IF Published(p) \in Entries THEN Published(p) ELSE None,
             queue |-> Append(s.queue, <<p, k + 1>>)]
    BY <1>1, <1>7 DEF Visit, t, p
  <2>2. p \in Within[k + 1]
    <3>1. Within[k + 1] = Onward(Within[k])
      BY <1>1, WithinSteps
    <3>2. e.score > 0
      BY <1>3, <1>7
    <3>3. QED
      BY <1>5, <1>1, <1>2, <1>3, <3>1, <3>2 DEF Onward
  <2>3. p \notin Within[k]
    BY <1>7 DEF Amid, Searching
  <2>4. CASE Published(p) \in Entries
    <3>1. t.answer = Published(p) /\ t.answer # None
      BY <2>1, <2>4, NoneIsNoEntry
    <3>2. Knowing(k) = {}
      BY DEF Amid, Searching, Knowing
    <3>3. p \in Knowing(k + 1)
      BY <2>2, <2>4 DEF Knowing
    <3>4. Nearest(t.answer)
      BY <1>1, <3>1, <3>2, <3>3 DEF Nearest
    <3>5. QED
      BY <1>4, <3>1, <3>4 DEF Found, t, e
  <2>5. CASE Published(p) \notin Entries
    <3>1. /\ t.visited = s.visited \cup {p} /\ t.answer = None
          /\ t.queue = Append(s.queue, <<p, k + 1>>)
      BY <2>1, <2>5
    <3>2. /\ QueueOK(t.queue, D, t.visited, k)
          /\ Waits(t.queue, p)
          /\ \A x : Waits(s.queue, x) => Waits(t.queue, x)
      <4>1. s.queue \in Seq(People \X Nat) /\ QueueOK(s.queue, D, s.visited, k)
            /\ D \subseteq s.visited /\ p \notin s.visited
        BY <1>1, <1>7 DEF Amid, Searching, States
      <4> DEFINE q == s.queue
                 V == s.visited
      <4> HIDE DEF q, V
      <4>2. /\ q \in Seq(People \X Nat) /\ QueueOK(q, D, V, k)
            /\ D \subseteq V /\ p \notin V
        BY <4>1 DEF q, V
      <4>3. /\ QueueOK(Append(q, <<p, k + 1>>), D, V \cup {p}, k)
            /\ Waits(Append(q, <<p, k + 1>>), p)
            /\ \A x : Waits(q, x) => Waits(Append(q, <<p, k + 1>>), x)
        BY <1>1, <1>3, <2>2, <2>3, <4>2, QueueGrows
      <4>4. QED
        BY <3>1, <4>3 DEF q, V
    <3>3. p \in Within[MaxDepth]
      <4>1. k + 1 \in 0..MaxDepth /\ MaxDepth \in (k + 1)..MaxDepth
        BY <1>1, NamingAssumption
      <4>2. QED
        BY <2>2, <4>1, WithinGrows
    <3>4. Searching(t, D, k)
      BY <1>4, <2>5, <3>1, <3>2, <3>3 DEF Amid, Searching
    <3>5. LookedAt(t, {who})
      <4>1. \A x : Followed(x, s.visited) => Followed(x, t.visited)
        BY <3>1 DEF Followed
      <4>2. QED
        BY <3>1, <3>2, <4>1 DEF Amid, LookedAt
    <3>6. Amid(t, D, k, who) /\ s.visited \subseteq t.visited /\ p \in t.visited
      BY <3>1, <3>4, <3>5 DEF Amid
    <3>7. QED
      BY <1>5, <3>6 DEF t
  <2>6. QED
    BY <2>4, <2>5
<1>8. QED
  BY <1>6, <1>7

(* All edges of one peer.                                                  *)
LEMMA VisitsKeep ==
  ASSUME NamingTypeOK, NEW s, NEW D, NEW k, NEW who, Amid(s, D, k, who)
  PROVE  LET t == Visits(s, trust[who], k)[Len(trust[who])] IN
         \/ Found(t)
         \/ Amid(t, D, k, who) /\ Followed(who, t.visited)
<1> DEFINE edges == trust[who]
           N == Len(edges)
           f == Visits(s, edges, k)
           Seen(t, i) == \A j \in 1..i : edges[j].score > 0 => edges[j].to \in t.visited
           Kept(t, i) == Found(t) \/ (Amid(t, D, k, who) /\ Seen(t, i))
           T == {i \in 0..N : Kept(f[i], i)}
<1>1. s \in States /\ k \in Nat /\ who \in People
  BY NamingAssumption, WithinSteps DEF Amid, Searching
<1>2. edges \in Seq(Given) /\ N \in Nat
  BY <1>1 DEF NamingTypeOK
<1>3. /\ f \in [0..N -> States]
      /\ f[0] = s
      /\ \A i \in 1..N : f[i] = Visit(f[i - 1], edges[i], k)
  <2> HIDE DEF edges
  <2>1. QED
    BY <1>1, <1>2, VisitsSteps
<1>4. 0 \in T
  BY <1>2, <1>3
<1>5. ASSUME NEW i \in 1..N, i - 1 \in T PROVE i \in T
  <2> PICK a : a = f[i - 1]
    OBVIOUS
  <2>1. Kept(a, i - 1) /\ f[i] = Visit(a, edges[i], k)
    BY <1>3, <1>5
  <2>2. CASE Found(a)
    <3>1. f[i] = a
      BY <2>1, <2>2 DEF Found, Visit
    <3>2. QED
      BY <2>2, <3>1
  <2>3. CASE Amid(a, D, k, who) /\ Seen(a, i - 1)
    <3> PICK t : t = f[i]
      OBVIOUS
    <3>1. \/ Found(t)
          \/ /\ Amid(t, D, k, who)
             /\ a.visited \subseteq t.visited
             /\ edges[i].score > 0 => edges[i].to \in t.visited
      BY <2>1, <2>3, VisitKeeps
    <3>2. \A j \in 1..i : j = i \/ j \in 1..(i - 1)
      OBVIOUS
    <3>3. Kept(t, i)
      BY <2>3, <3>1, <3>2
    <3>4. QED
      BY <3>3
  <2>4. QED
    BY <2>1, <2>2, <2>3
<1>6. N \in T
  <2>1. \A i \in 0..N : i \in T
    <3> HIDE DEF T, N
    <3>1. QED
      BY <1>2, <1>4, <1>5, AllReached
  <2>2. QED
    BY <1>2, <2>1
<1>7. \A t : Seen(t, N) => Followed(who, t.visited)
  BY <1>2 DEF Followed
<1>8. Kept(f[N], N)
  BY <1>6
<1>9. QED
  BY <1>7, <1>8

(* When the first in the queue is farther than k, all who are at k were    *)
(* looked at, and so those at k + 1 visited.                               *)
LEMMA LevelUp ==
  ASSUME NamingTypeOK, NEW s, NEW D, NEW k, Between(s, D, k), s.queue # <<>>
  PROVE  Between(s, D, s.queue[1][2])
<1> DEFINE q == s.queue
           V == s.visited
<1>1. /\ q \in Seq(People \X Nat) /\ q # <<>> /\ QueueOK(q, D, V, k)
      /\ k \in 0..MaxDepth /\ Within[k] \subseteq V
  BY DEF Between, Searching, States
<1>2. 1 \in 1..Len(q) /\ Len(q) \in Nat
  BY <1>1
<1> HIDE DEF q, V
<1>3. CASE q[1][2] = k
  BY <1>3 DEF q
<1>4. CASE q[1][2] = k + 1
  <2>1. k + 1 \in 1..MaxDepth /\ (k + 1) - 1 = k /\ MaxDepth \in (k + 1)..MaxDepth
    BY <1>1, <1>2, <1>4, NamingAssumption DEF QueueOK
  <2>2. \A j \in 1..Len(q) : q[j][2] = k + 1
    <3>1. ASSUME NEW j \in 1..Len(q), 1 < j PROVE q[j][2] = k + 1
      <4>1. q[j][2] \in {k, k + 1} /\ q[1][2] <= q[j][2]
        BY <1>1, <1>2, <3>1 DEF QueueOK
      <4>2. QED
        BY <1>4, <2>1, <4>1
    <3>2. QED
      BY <1>2, <1>4, <3>1
  <2>3. Within[k + 1] \subseteq V
    <3>1. CASE Within[MaxDepth] \subseteq V
      <4>1. k + 1 \in 0..MaxDepth
        BY <2>1
      <4>2. QED
        BY <2>1, <3>1, <4>1, WithinGrows
    <3>2. CASE ~(Within[MaxDepth] \subseteq V)
      <4>1. ASSUME NEW p \in Within[k] PROVE Followed(p, V)
        <5>1. ~Waits(q, p)
          BY <1>1, <2>1, <2>2, <4>1 DEF QueueOK, Waits
        <5>2. QED
          BY <1>1, <3>2, <4>1, <5>1 DEF Between, LookedAt, q, V
      <4>2. Within[k + 1] = Onward(Within[k])
        BY <2>1, WithinSteps
      <4>3. QED
        BY <1>1, <4>1, <4>2 DEF Onward, Followed
    <3>3. QED
      BY <3>1, <3>2
  <2>4. QueueOK(q, D, V, k + 1)
    BY <1>1, <2>2 DEF QueueOK
  <2>5. k + 1 \in 0..MaxDepth
    BY <2>1
  <2>6. Between(s, D, k + 1)
    BY <2>3, <2>4, <2>5 DEF Between, Searching, q, V
  <2>7. QED
    BY <1>4, <2>6 DEF q
<1>5. QED
  BY <1>1, <1>2, <1>3, <1>4 DEF QueueOK

(* The first is taken out of the queue.                                    *)
LEMMA HeadTaken ==
  ASSUME NamingTypeOK, NEW s, NEW D, NEW k, Between(s, D, k), s.queue # <<>>,
         s.queue[1][2] = k
  PROVE  LET w == s.queue[1][1]
             rest == [s EXCEPT !.queue = Tail(@)]
         IN  /\ w \in Within[k] /\ w \in People \ D
             /\ Searching(rest, D \cup {w}, k)
             /\ LookedAt(rest, {w})
<1> DEFINE q == s.queue
           V == s.visited
           w == q[1][1]
           rest == [s EXCEPT !.queue = Tail(@)]
           r == Tail(q)
<1>1. /\ q \in Seq(People \X Nat) /\ q # <<>> /\ QueueOK(q, D, V, k)
      /\ D \subseteq V /\ V \subseteq People /\ s \in States
  BY DEF Between, Searching, States
<1>2. /\ 1 \in 1..Len(q) /\ Len(q) \in Nat /\ Len(r) = Len(q) - 1
      /\ r \in Seq(People \X Nat)
      /\ \A j \in 1..Len(r) : j + 1 \in 1..Len(q) /\ r[j] = q[j + 1] /\ 1 < j + 1
      /\ \A j \in 1..Len(q) : j = 1 \/ (j - 1 \in 1..Len(r) /\ r[j - 1] = q[j])
  BY <1>1
<1>3. rest.queue = r /\ rest.visited = V /\ rest.answer = s.answer /\ rest \in States
  BY <1>1, <1>2 DEF States
<1>4. w \in Within[k] /\ w \in V \ D
  BY <1>1, <1>2 DEF QueueOK
<1> HIDE DEF rest, r, q, w, V
<1>5. QueueOK(r, D \cup {w}, V, k)
  <2>1. ASSUME NEW j \in 1..Len(r)
        PROVE  /\ r[j][1] \in V \ (D \cup {w})
               /\ r[j][2] \in {k, k + 1} /\ r[j][2] <= MaxDepth
               /\ r[j][1] \in Within[r[j][2]]
               /\ r[j][2] > 0 => r[j][1] \notin Within[r[j][2] - 1]
    BY <1>1, <1>2 DEF QueueOK, w
  <2>2. ASSUME NEW i \in 1..Len(r), NEW j \in 1..Len(r), i < j
        PROVE  r[i][2] <= r[j][2] /\ r[i][1] # r[j][1]
    <3>1. i + 1 < j + 1 /\ i + 1 \in 1..Len(q) /\ j + 1 \in 1..Len(q)
      BY <1>2, <2>2
    <3>2. q[i + 1][2] <= q[j + 1][2] /\ q[i + 1][1] # q[j + 1][1]
      BY <1>1, <3>1 DEF QueueOK
    <3>3. r[i] = q[i + 1] /\ r[j] = q[j + 1]
      BY <1>2
    <3>4. QED
      BY <3>2, <3>3
  <2>3. QED
    BY <2>1, <2>2 DEF QueueOK
<1>6. Searching(rest, D \cup {w}, k)
  BY <1>3, <1>4, <1>5 DEF Between, Searching, V
<1>7. LookedAt(rest, {w})
  <2>1. ASSUME NEW p, p # w, Waits(q, p) PROVE Waits(r, p)
    BY <1>2, <2>1 DEF Waits, w
  <2>2. QED
    BY <1>3, <2>1 DEF Between, LookedAt, q, V
<1>8. QED
  BY <1>1, <1>4, <1>6, <1>7 DEF rest, w, q

LEMMA TurnKeeps ==
  ASSUME NamingTypeOK, NEW s, NEW D, NEW k, Between(s, D, k), s.queue # <<>>
  PROVE  \/ Found(Turn(s))
         \/ \E w \in People \ D : \E d : Between(Turn(s), D \cup {w}, d)
<1> DEFINE d == s.queue[1][2]
           w == s.queue[1][1]
           rest == [s EXCEPT !.queue = Tail(@)]
<1>1. Between(s, D, d)
  BY LevelUp
<1>2. w \in Within[d] /\ w \in People \ D /\ Searching(rest, D \cup {w}, d)
      /\ LookedAt(rest, {w})
  BY <1>1, HeadTaken
<1>3. Turn(s) = IF d >= MaxDepth THEN rest
                ELSE Visits(rest, trust[w], d)[Len(trust[w])]
  <2>1. Head(s.queue) = s.queue[1] /\ s.answer = None
    BY DEF Between, Searching, States
  <2>2. QED
    BY <2>1 DEF Turn
<1> HIDE DEF d, w, rest
<1>4. d \in 0..MaxDepth
  BY <1>1 DEF Between, Searching
<1>5. CASE d >= MaxDepth
  <2>1. d = MaxDepth
    BY <1>4, <1>5, NamingAssumption
  <2>2. LookedAt(rest, {})
    BY <1>2, <2>1 DEF LookedAt, Searching
  <2>3. Between(Turn(s), D \cup {w}, d)
    BY <1>2, <1>3, <1>5, <2>2 DEF Between
  <2>4. QED
    BY <1>2, <2>3
<1>6. CASE ~(d >= MaxDepth)
  <2>1. d < MaxDepth
    BY <1>4, <1>6, NamingAssumption
  <2>2. Amid(rest, D \cup {w}, d, w)
    BY <1>2, <2>1 DEF Amid
  <2>3. \/ Found(Turn(s))
        \/ Amid(Turn(s), D \cup {w}, d, w) /\ Followed(w, Turn(s).visited)
    BY <1>3, <1>6, <2>2, VisitsKeep
  <2>4. ASSUME Amid(Turn(s), D \cup {w}, d, w), Followed(w, Turn(s).visited)
        PROVE  Between(Turn(s), D \cup {w}, d)
    BY <2>4 DEF Amid, Between, LookedAt
  <2>5. QED
    BY <1>2, <2>3, <2>4
<1>7. QED
  BY <1>5, <1>6

(* The queue is empty: everybody within the depth was visited.             *)
LEMMA SearchEnds ==
  ASSUME NamingTypeOK, NEW s, NEW D, NEW k, Between(s, D, k), s.queue = <<>>
  PROVE  Over(s)
<1> DEFINE V == s.visited
           T == {n \in 0..MaxDepth : Within[n] \subseteq V}
<1>1. Within[MaxDepth] \subseteq V
  <2>1. SUFFICES ASSUME ~(Within[MaxDepth] \subseteq V)
                 PROVE  Within[MaxDepth] \subseteq V
    OBVIOUS
  <2>2. \A p \in V : Followed(p, V)
    BY <2>1 DEF Between, LookedAt, Waits
  <2>3. 0 \in T
    BY NamingAssumption, WithinSteps DEF Between, Searching
  <2>4. ASSUME NEW n \in 1..MaxDepth, n - 1 \in T PROVE n \in T
    <3>1. Within[n] = Onward(Within[n - 1]) /\ Within[n - 1] \subseteq V
      BY <2>4, WithinSteps
    <3>2. Within[n] \subseteq V
      BY <2>2, <3>1 DEF Onward, Followed
    <3>3. QED
      BY <3>2
  <2>5. \A n \in 0..MaxDepth : n \in T
    <3> HIDE DEF T
    <3>1. QED
      BY <2>3, <2>4, NamingAssumption, AllReached
  <2>6. QED
    BY <2>5, NamingAssumption
<1>2. Knowing(MaxDepth) = {}
  BY <1>1 DEF Between, Searching, Knowing
<1>3. QED
  BY <1>2 DEF Between, Searching, Over

-----------------------------------------------------------------------------
(***************************************************************************)
(* As many turns as there are people are enough, and then the answer is    *)
(* the nearest, or there is none.                                          *)
(***************************************************************************)
Going(s, n) ==
  \E D \in SUBSET People : \E k : Between(s, D, k) /\ Cardinality(D) = n

LEMMA FirstTurn ==
  ASSUME NamingTypeOK
  PROVE  Going(SearchInit, 0)
<1> DEFINE s == SearchInit
           q == s.queue
<1>1. s \in States /\ s.answer = None /\ s.visited = {Me} /\ q = <<<<Me, 0>>>>
  BY DEF SearchInit, States, People
<1>2. 0 \in 0..MaxDepth /\ MaxDepth \in 0..MaxDepth
  BY NamingAssumption
<1>3. Within[0] = {Me} /\ Within[0] \subseteq Within[MaxDepth]
  BY <1>2, WithinSteps, WithinGrows
<1>4. Published(Me) \notin Entries
  BY NoneIsNoEntry DEF Published
<1>5. Len(q) = 1 /\ q[1][1] = Me /\ q[1][2] = 0
  BY <1>1
<1> HIDE DEF s, q
<1>6. QueueOK(q, {}, s.visited, 0)
  BY <1>1, <1>2, <1>3, <1>5, NamingAssumption DEF QueueOK
<1>7. Waits(q, Me)
  BY <1>5 DEF Waits
<1>8. Between(s, {}, 0)
  BY <1>1, <1>2, <1>3, <1>4, <1>6, <1>7 DEF Between, Searching, LookedAt, q
<1>9. QED
  BY <1>8, FS_EmptySet DEF Going, s

LEMMA SearchResult ==
  ASSUME NamingTypeOK
  PROVE  Found(Search[Cardinality(People)]) \/ Over(Search[Cardinality(People)])
<1> DEFINE N == Cardinality(People)
           Fine(s, n) == Found(s) \/ Over(s) \/ Going(s, n)
           T == {n \in 0..N : Fine(Search[n], n)}
<1>1. N \in Nat /\ IsFiniteSet(People)
  BY PeopleFinite
<1>2. 0 \in T
  BY <1>1, FirstTurn, SearchSteps
<1>3. ASSUME NEW n \in 1..N, n - 1 \in T PROVE n \in T
  <2> PICK s : s = Search[n - 1]
    OBVIOUS
  <2>1. Fine(s, n - 1) /\ Search[n] = Turn(s)
    BY <1>3, SearchSteps
  <2>2. CASE Found(s) \/ Over(s)
    <3>1. Turn(s) = s
      BY <2>2 DEF Found, Over, Turn
    <3>2. QED
      BY <2>1, <2>2, <3>1
  <2>3. CASE Going(s, n - 1)
    <3>1. PICK D \in SUBSET People : \E k : Between(s, D, k) /\ Cardinality(D) = n - 1
      BY <2>3 DEF Going
    <3>2. PICK k : Between(s, D, k) /\ Cardinality(D) = n - 1
      BY <3>1
    <3>3. CASE s.queue = <<>>
      <4>1. Over(s)
        BY <3>2, <3>3, SearchEnds
      <4>2. Turn(s) = s
        BY <3>3 DEF Turn
      <4>3. QED
        BY <2>1, <4>1, <4>2
    <3>4. CASE s.queue # <<>>
      <4>1. CASE Found(Turn(s))
        BY <2>1, <4>1
      <4>2. CASE \E w \in People \ D : \E d : Between(Turn(s), D \cup {w}, d)
        <5>1. PICK w \in People \ D : \E d : Between(Turn(s), D \cup {w}, d)
          BY <4>2
        <5>2. PICK d : Between(Turn(s), D \cup {w}, d)
          BY <5>1
        <5>3. IsFiniteSet(D)
          BY <1>1, FS_Subset
        <5>4. Cardinality(D \cup {w}) = n
          <6>1. Cardinality(D \cup {w}) = Cardinality(D) + 1
            BY <5>2, <5>3, FS_AddElement
          <6>2. QED
            BY <1>1, <3>2, <6>1
        <5>5. Going(Turn(s), n)
          BY <5>2, <5>4 DEF Going
        <5>6. QED
          BY <2>1, <5>5
      <4>3. QED
        BY <3>2, <3>4, <4>1, <4>2, TurnKeeps
    <3>5. QED
      BY <3>3, <3>4
  <2>4. QED
    BY <2>1, <2>2, <2>3
<1>4. N \in T
  <2>1. \A n \in 0..N : n \in T
    <3> HIDE DEF T, N
    <3>1. QED
      BY <1>1, <1>2, <1>3, AllReached
  <2>2. QED
    BY <1>1, <2>1
<1> PICK s : s = Search[N]
  OBVIOUS
<1>5. ASSUME Going(s, N) PROVE Over(s)
  <2>1. PICK D \in SUBSET People : \E k : Between(s, D, k) /\ Cardinality(D) = N
    BY <1>5 DEF Going
  <2>2. PICK k : Between(s, D, k) /\ Cardinality(D) = N
    BY <2>1
  <2>3. D = People
    BY <1>1, <2>2, FS_Subset
  <2>4. s.queue = <<>>
    <3>1. ASSUME s.queue # <<>> PROVE FALSE
      <4>1. s.queue \in Seq(People \X Nat) /\ QueueOK(s.queue, D, s.visited, k)
            /\ s.visited \subseteq People
        BY <2>2 DEF Between, Searching, States
      <4>2. 1 \in 1..Len(s.queue)
        BY <3>1, <4>1
      <4>3. s.queue[1][1] \in s.visited \ D
        BY <4>1, <4>2 DEF QueueOK
      <4>4. QED
        BY <2>3, <4>1, <4>3
    <3>2. QED
      BY <3>1
  <2>5. QED
    BY <2>2, <2>4, SearchEnds
<1>6. QED
  BY <1>4, <1>5

(* In any graph of trust and with any lists, in whatever order they came:  *)
(* a name stands for what the user assigned, else for an entry of a peer   *)
(* at the least distance of trust that has one, and for nothing only when  *)
(* no peer within the depth has one.  The loop of resolve_wot ends after   *)
(* at most one turn for each person.                                       *)
THEOREM NearestIsFound == NamingSpec => []WotNearest
<1>1. ASSUME NamingTypeOK PROVE WotNearest
  <2>1. CASE petname # None
    BY <2>1 DEF WotNearest, ResolveName
  <2>2. CASE petname = None
    <3> PICK a : a = Search[Cardinality(People)].answer
      OBVIOUS
    <3>1. ResolveName = a
      BY <2>2 DEF ResolveName, ResolveWot
    <3>2. (a # None /\ Nearest(a)) \/ (a = None /\ Knowing(MaxDepth) = {})
      BY <1>1, SearchResult DEF Found, Over
    <3>3. ASSUME NEW n \in 1..MaxDepth, Knowing(n) # {} PROVE Knowing(MaxDepth) # {}
      <4>1. n \in 0..MaxDepth /\ MaxDepth \in n..MaxDepth
        BY NamingAssumption
      <4>2. Within[n] \subseteq Within[MaxDepth]
        BY <4>1, WithinGrows
      <4>3. QED
        BY <3>3, <4>2 DEF Knowing
    <3>4. Nearest(a) => Knowing(MaxDepth) # {}
      BY <3>3 DEF Nearest
    <3>5. QED
      BY <2>2, <3>1, <3>2, <3>4 DEF WotNearest, Nearest
  <2>3. QED
    BY <2>1, <2>2
<1>2. NamingTypeOK /\ [NamingNext]_namingVars => NamingTypeOK'
  BY NamingNextType
<1>3. NamingSpec => []NamingTypeOK
  BY NamingInitType, <1>2, PTL DEF NamingSpec
<1>4. QED
  BY <1>1, <1>3, PTL
=============================================================================
