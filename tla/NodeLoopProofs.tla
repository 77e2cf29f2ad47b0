--------------------------- MODULE NodeLoopProofs ---------------------------
(***************************************************************************)
(* Theorems about NodeLoop: its type invariant, the routing of replies and *)
(* the refinement of CallService, for any sets of calls, ids and peers.    *)
(***************************************************************************)
EXTENDS NodeLoop, TLAPS

(***************************************************************************)
(* The channel of commands.                                                *)
(***************************************************************************)
Message == [kind: CommandKinds, from: Owners]

LEMMA TailFacts ==
  ASSUME NEW q \in Seq(Message), q # <<>>
  PROVE  /\ Tail(q) \in Seq(Message)
         /\ Head(q) = q[1] /\ Head(q) \in Message
         /\ 1 \in 1..Len(q)
         /\ Len(Tail(q)) = Len(q) - 1
         /\ \A n \in 1..Len(Tail(q)) : n + 1 \in 1..Len(q) /\ Tail(q)[n] = q[n + 1]
         /\ \A n \in 1..Len(q) : n # 1 => n - 1 \in 1..Len(Tail(q))
  OBVIOUS

LEMMA AppendFacts ==
  ASSUME NEW q \in Seq(Message), NEW m \in Message
  PROVE  /\ Append(q, m) \in Seq(Message)
         /\ Len(Append(q, m)) = Len(q) + 1
         /\ \A n \in 1..Len(q) : Append(q, m)[n] = q[n]
         /\ Append(q, m)[Len(q) + 1] = m
  OBVIOUS

LEMMA CommandType ==
  ASSUME NEW o, NEW l
  PROVE  Command(o, l) \in {"ListenOn", "PutRecord", "GetRecord", "StartProviding",
                            "GetProviders", "SendBlockRequest", "KnownPeers"}
  BY DEF Command

LEMMA SecondCommand ==
  ASSUME NEW o \in {"start_providing", "get_providers"}
  PROVE  Command(o, 2) # Command(o, 1)
<1>1. Command("start_providing", 1) = "StartProviding"
      /\ Command("start_providing", 2) = "PutRecord"
  BY DEF Command
<1>2. Command("get_providers", 1) = "GetProviders"
      /\ Command("get_providers", 2) = "GetRecord"
  BY DEF Command
<1>3. QED
  BY <1>1, <1>2

(***************************************************************************)
(* The type invariant, action by action.                                   *)
(***************************************************************************)
LEMMA InitType == Init => TypeOK
  BY ConstantsAssumption DEF Init, TypeOK, AllOps, Free, NoResult, Bodies

LEMMA NextType == TypeOK /\ [Next]_vars => TypeOK'
<1> SUFFICES ASSUME TypeOK, [Next]_vars PROVE TypeOK'
  OBVIOUS
<1> USE DEF callVars, loopVars
<1>1. ASSUME NEW c \in Calls, NEW o \in Ops, Invoke(c, o) PROVE TypeOK'
  <2>1. queue' \in Seq(Message)
    BY <1>1, CommandType, AppendFacts
       DEF Invoke, TypeOK, Message, CommandKinds, Kinds, Owners
  <2>2. QED
    BY <1>1, <2>1, ConstantsAssumption DEF Invoke, TypeOK, Message
<1>2. ASSUME NEW c \in Calls, Abandon(c) PROVE TypeOK'
  BY <1>2 DEF Abandon, TypeOK
<1>3. ASSUME NEW c \in Calls, ContinueCall(c) PROVE TypeOK'
  <2>1. queue' \in Seq(Message)
    BY <1>3, CommandType, AppendFacts
       DEF ContinueCall, TypeOK, Message, CommandKinds, Kinds, Owners
  <2>2. saved' \in [Calls -> SUBSET Peers]
    BY <1>3 DEF ContinueCall, TypeOK, Reply
  <2>3. QED
    BY <1>3, <2>1, <2>2 DEF ContinueCall, TypeOK, Message
<1>4. ASSUME NEW c \in Calls, Return(c) PROVE TypeOK'
  <2>1. PICK r \in oneshot[c] : result' = [result EXCEPT ![c] = Outcome(c, r)]
    BY <1>4 DEF Return
  <2>2. r \in Reply /\ saved[c] \subseteq Peers
    BY <2>1 DEF TypeOK
  <2>3. Outcome(c, r) \in [ok: BOOLEAN, peers: SUBSET Peers, body: Bodies]
    BY <2>2 DEF Outcome, Reply, Bodies
  <2>4. QED
    BY <1>4, <2>1, <2>3 DEF Return, TypeOK
<1>5. CASE Dial
  <2>1. queue' \in Seq(Message)
    BY <1>5, AppendFacts DEF Dial, TypeOK, Message, CommandKinds, Owners
  <2>2. QED
    BY <1>5, <2>1 DEF Dial, TypeOK, Message
<1>6. CASE DropHandle
  BY <1>6 DEF DropHandle, TypeOK
<1>7. CASE ChaffAsk
  <2>1. queue' \in Seq(Message)
    <3>1. queue \in Seq(Message) /\ [kind |-> "KnownPeers", from |-> Chaff] \in Message
      BY DEF TypeOK, Message, CommandKinds, Owners
    <3>2. QED
      BY <1>7, <3>1, AppendFacts DEF ChaffAsk
  <2>2. QED
    BY <1>7, <2>1 DEF ChaffAsk, TypeOK, Message
<1>8. CASE ChaffSend
  <2>1. queue' \in Seq(Message)
    BY <1>8, AppendFacts DEF ChaffSend, TypeOK, Message, CommandKinds, Kinds, Owners
  <2>2. QED
    BY <1>8, <2>1 DEF ChaffSend, TypeOK, Message
<1>9. ASSUME NEW k \in CommandKinds, TakeCommand(k)
      PROVE  queue' \in Seq(Message) /\ Head(queue) \in Message
  BY <1>9, TailFacts DEF TakeCommand, TypeOK, Message
<1>10. ASSUME NEW o \in Owners \cup {Nobody}, NEW r \in Reply, Deliver(o, r)
       PROVE  oneshot' \in [Calls -> SUBSET Reply]
  BY <1>10 DEF Deliver, TypeOK
<1>11. ASSUME NEW k \in Kinds, StartQuery(k) PROVE TypeOK'
  <2>1. queue' \in Seq(Message) /\ Head(queue) \in Message
    BY <1>9, <1>11 DEF StartQuery, CommandKinds
  <2>2. QED
    BY <1>11, <2>1 DEF StartQuery, TypeOK, Message, Kinds
<1>12. ASSUME NEW k \in Kinds, RefuseQuery(k) PROVE TypeOK'
  <2>1. queue' \in Seq(Message) /\ Head(queue) \in Message
    BY <1>9, <1>12 DEF RefuseQuery, CommandKinds
  <2>2. Error(Head(queue).from, k) \in Reply
    BY <2>1 DEF Error, Reply, Message, CommandKinds, Bodies
  <2>3. oneshot' \in [Calls -> SUBSET Reply]
    BY <1>12, <1>10, <2>1, <2>2 DEF RefuseQuery, Message
  <2>4. QED
    BY <1>12, <2>1, <2>3 DEF RefuseQuery, TypeOK, Message
<1>13. ASSUME NEW ps \in SUBSET Peers, AnswerKnownPeers(ps) PROVE TypeOK'
  <2>1. queue' \in Seq(Message) /\ Head(queue) \in Message
    BY <1>9, <1>13 DEF AnswerKnownPeers, CommandKinds
  <2>2. [ok |-> TRUE, of |-> Head(queue).from, kind |-> "KnownPeers",
         peers |-> ps, body |-> "none"] \in Reply
    BY <2>1 DEF Reply, Message, CommandKinds, Bodies
  <2>3. oneshot' \in [Calls -> SUBSET Reply]
    BY <1>13, <1>10, <2>1, <2>2 DEF AnswerKnownPeers, Message
  <2>4. QED
    BY <1>13, <2>1, <2>3 DEF AnswerKnownPeers, TypeOK, Message
<1>14. CASE ProcessDial
  <2>1. queue' \in Seq(Message)
    BY <1>9, <1>14 DEF ProcessDial, CommandKinds
  <2>2. QED
    BY <1>14, <2>1 DEF ProcessDial, TypeOK, Message
<1>15. CASE StopLoop
  BY <1>15 DEF StopLoop, DropLoop, TypeOK, Free
<1>16. ASSUME NEW i \in Ids, NEW k \in Kinds, NEW r \in Reply,
              RemoveAndReply(k, i, r)
       PROVE  /\ oneshot' \in [Calls -> SUBSET Reply]
              /\ pending' \in [Kinds -> [Ids -> Owners \cup {Nobody}]]
  <2>1. pending[k][i] \in Owners \cup {Nobody}
    BY DEF TypeOK
  <2>2. QED
    BY <1>10, <1>16, <2>1 DEF RemoveAndReply, TypeOK
<1>17. ASSUME NEW i \in Ids, NEW k \in Kinds, Runs(i, k)
       PROVE  /\ Failure(i) \in Reply
              /\ \A ps \in SUBSET Peers, b \in Bodies : Answer(i, ps, b) \in Reply
  BY <1>17 DEF Runs, Failure, Answer, Error, Reply, CommandKinds, Bodies, TypeOK
<1>18. ASSUME NEW i \in Ids, NewListenAddr(i) PROVE TypeOK'
  <2>1. Answer(i, {}, "none") \in Reply
    BY <1>17, <1>18 DEF NewListenAddr, Kinds, Bodies
  <2>2. QED
    BY <1>16, <1>18, <2>1 DEF NewListenAddr, Kinds, TypeOK
<1>19. ASSUME NEW i \in Ids, ListenerClosed(i) PROVE TypeOK'
  BY <1>19 DEF ListenerClosed, TypeOK
<1>20. ASSUME NEW i \in Ids, NEW b \in RecordBodies, FoundRecord(i, b) PROVE TypeOK'
  <2>1. Answer(i, {}, b) \in Reply
    BY <1>17, <1>20 DEF FoundRecord, Kinds, Bodies
  <2>2. QED
    BY <1>16, <1>20, <2>1 DEF FoundRecord, Kinds, TypeOK
<1>21. ASSUME NEW i \in Ids, NEW ps \in SUBSET Peers, FoundProviders(i, ps)
       PROVE TypeOK'
  BY <1>21 DEF FoundProviders, TypeOK
<1>22. ASSUME NEW i \in Ids, Ended(i)
       PROVE  swarm' \in [Ids -> [kind: Kinds \cup {"free", "closed"},
                                  from: Owners \cup {Nobody}, found: SUBSET Peers]]
  BY <1>22 DEF Ended, Free, TypeOK
<1>23. ASSUME NEW i \in Ids, GetRecordEnds(i) PROVE TypeOK'
  <2>1. Failure(i) \in Reply
    BY <1>17, <1>23 DEF GetRecordEnds, Kinds
  <2>2. QED
    BY <1>16, <1>22, <1>23, <2>1 DEF GetRecordEnds, Kinds, TypeOK
<1>24. ASSUME NEW i \in Ids, NEW k \in Kinds, NEW ok \in BOOLEAN,
              StoreQueryEnds(k, i, ok)
       PROVE TypeOK'
  <2>1. (IF ok THEN Answer(i, {}, "none") ELSE Failure(i)) \in Reply
    BY <1>17, <1>24 DEF StoreQueryEnds, Bodies
  <2>2. QED
    BY <1>16, <1>22, <1>24, <2>1 DEF StoreQueryEnds, TypeOK
<1>25. ASSUME NEW i \in Ids, NEW ps \in SUBSET Peers, LastProviders(i, ps)
       PROVE TypeOK'
  <2>1. collected[i] \cup ps \in SUBSET Peers
    BY DEF TypeOK
  <2>2. Answer(i, collected[i] \cup ps, "none") \in Reply
    BY <1>17, <1>25, <2>1 DEF LastProviders, Kinds, Bodies
  <2>3. QED
    BY <1>16, <1>22, <1>25, <2>2 DEF LastProviders, Kinds, TypeOK
<1>26. ASSUME NEW i \in Ids, GetProvidersFails(i) PROVE TypeOK'
  <2>1. Failure(i) \in Reply
    BY <1>17, <1>26 DEF GetProvidersFails, Kinds
  <2>2. QED
    BY <1>16, <1>22, <1>26, <2>1 DEF GetProvidersFails, Kinds, TypeOK
<1>27. ASSUME NEW i \in Ids, RelayReturns(i) PROVE TypeOK'
  BY <1>22, <1>27 DEF RelayReturns, TypeOK
<1>28. ASSUME NEW i \in Ids, NEW r \in Reply, RequestReturns(i, r) PROVE TypeOK'
  BY <1>16, <1>22, <1>28 DEF RequestReturns, Kinds, TypeOK
<1>29. ASSUME NEW i \in Ids, NEW b \in ResponseBodies, Responded(i, b) PROVE TypeOK'
  <2>1. Answer(i, {}, b) \in Reply
    BY <1>17, <1>29 DEF Responded, RequestReturns, Kinds, Bodies
  <2>2. QED
    BY <1>28, <1>29, <2>1 DEF Responded
<1>30. ASSUME NEW i \in Ids, OutboundFailure(i) PROVE TypeOK'
  <2>1. Failure(i) \in Reply
    BY <1>17, <1>30 DEF OutboundFailure, RequestReturns, Kinds
  <2>2. QED
    BY <1>28, <1>30, <2>1 DEF OutboundFailure
<1>31. ASSUME NEW b \in Inbound, AnswerInbound(b) PROVE TypeOK'
  BY <1>31 DEF AnswerInbound, TypeOK
<1>32. ASSUME NEW b \in Inbound, RelayOnion(b) PROVE TypeOK'
  BY <1>32 DEF RelayOnion, TypeOK, Kinds, Owners
<1>33. CASE UNCHANGED vars
  BY <1>33 DEF vars, TypeOK
<1>34. QED
  BY <1>1, <1>2, <1>3, <1>4, <1>5, <1>6, <1>7, <1>8, <1>11, <1>12, <1>13,
     <1>14, <1>15, <1>18, <1>19, <1>20, <1>21, <1>23, <1>24, <1>25, <1>26,
     <1>27, <1>29, <1>30, <1>31, <1>32, <1>33
     DEF Next, CallerStep, ChaffStep, CommandStep, QueryEnds, QueryProgresses

(* Every variable keeps its type: in particular the pending maps only ever *)
(* hold senders, and the relay map only channels.                          *)
THEOREM TypeCorrect == Spec => []TypeOK
<1>1. TypeOK /\ [Next]_vars => TypeOK'
  BY NextType
<1>2. QED
  BY InitType, <1>1, PTL DEF Spec

-----------------------------------------------------------------------------
(***************************************************************************)
(* The inductive invariant.  Queued is used only through these two lemmas. *)
(***************************************************************************)
LEMMA TakeQueue ==
  ASSUME TypeOK, QueuedOnce, NEW k, TakeCommand(k)
  PROVE  /\ Head(queue) \in Message
         /\ Head(queue).kind = k
         /\ QueuedOnce'
         /\ Head(queue).from \in Calls => Queued(Head(queue).from, k)
         /\ \A c \in Calls, l \in CommandKinds :
              Queued(c, l)' <=> Queued(c, l) /\ c # Head(queue).from
<1>1. queue \in Seq(Message) /\ queue # <<>> /\ queue' = Tail(queue)
      /\ Head(queue).kind = k
  BY DEF TypeOK, TakeCommand, Message
<1> DEFINE f == Head(queue).from
<1>2. QueuedOnce'
  BY <1>1, TailFacts DEF QueuedOnce
<1>3. f \in Calls => Queued(f, k)
  BY <1>1, TailFacts DEF Queued
<1>4. ASSUME NEW c \in Calls, NEW l \in CommandKinds
      PROVE  Queued(c, l)' <=> Queued(c, l) /\ c # f
  <2>1. ASSUME Queued(c, l)' PROVE Queued(c, l) /\ c # f
    <3>1. PICK n \in 1..Len(Tail(queue)) :
            Tail(queue)[n].from = c /\ Tail(queue)[n].kind = l
      BY <1>1, <2>1 DEF Queued
    <3>2. n + 1 \in 1..Len(queue) /\ queue[n + 1].from = c
          /\ queue[n + 1].kind = l /\ n + 1 # 1
      BY <1>1, <3>1, TailFacts
    <3>3. QED
      BY <1>1, <3>2, TailFacts DEF Queued, QueuedOnce
  <2>2. ASSUME Queued(c, l), c # f PROVE Queued(c, l)'
    <3>1. PICK n \in 1..Len(queue) : queue[n].from = c /\ queue[n].kind = l
      BY <2>2 DEF Queued
    <3>2. n # 1 /\ n - 1 \in 1..Len(Tail(queue)) /\ Tail(queue)[n - 1] = queue[n]
      BY <1>1, <2>2, <3>1, TailFacts
    <3>3. QED
      BY <1>1, <3>1, <3>2 DEF Queued
  <2>3. QED
    BY <2>1, <2>2
<1>5. QED
  BY <1>1, <1>2, <1>3, <1>4, TailFacts

LEMMA AppendQueue ==
  ASSUME TypeOK, QueuedOnce, NEW m \in Message, queue' = Append(queue, m),
         m.from \in Calls => \A l \in CommandKinds : ~Queued(m.from, l)
  PROVE  /\ QueuedOnce'
         /\ \A c \in Calls, l \in CommandKinds :
              Queued(c, l)' <=> Queued(c, l) \/ (c = m.from /\ l = m.kind)
<1>1. queue \in Seq(Message)
  BY DEF TypeOK, Message
<1>2. \A n \in 1..Len(queue') : n \in 1..Len(queue) \/ n = Len(queue) + 1
  BY <1>1, AppendFacts
<1>3. ASSUME m.from \in Calls, NEW n \in 1..Len(queue) PROVE queue[n].from # m.from
  <2>1. queue[n] \in Message
    BY <1>1
  <2>2. queue[n].kind \in CommandKinds
    BY <2>1 DEF Message
  <2>3. QED
    BY <1>3, <2>2 DEF Queued
<1>4. QueuedOnce'
  BY <1>1, <1>2, <1>3, AppendFacts DEF QueuedOnce
<1>5. ASSUME NEW c \in Calls, NEW l \in CommandKinds
      PROVE  Queued(c, l)' <=> Queued(c, l) \/ (c = m.from /\ l = m.kind)
  <2>1. \A n \in 1..Len(queue) : n \in 1..Len(queue') /\ queue'[n] = queue[n]
    BY <1>1, AppendFacts
  <2>2. Len(queue) + 1 \in 1..Len(queue') /\ queue'[Len(queue) + 1] = m
    BY <1>1, AppendFacts
  <2>3. QED
    BY <1>2, <2>1, <2>2 DEF Queued
<1>6. QED
  BY <1>4, <1>5

(***************************************************************************)
(* The three shapes of a step of the loop that answers somebody, and the   *)
(* one of a step that queues a command for nobody.                         *)
(***************************************************************************)
LEMMA InitIInv == Init => IInv
<1> SUFFICES ASSUME Init PROVE IInv
  OBVIOUS
<1>1. TypeOK
  BY InitType
<1>2. \A c \in Calls, k \in CommandKinds : ~Queued(c, k)
  BY DEF Init, Queued
<1>3. QueuedOnce
  BY DEF Init, QueuedOnce
<1>4. \A k \in Kinds, i \in Ids : pending[k][i] = Nobody /\ relay[i] = Nobody
  BY DEF Init
<1>5. \A i \in Ids : swarm[i].from = Nobody
  BY DEF Init, Free
<1>6. Nobody \notin Calls /\ Nobody \notin Inbound
  BY ConstantsAssumption
<1>7. QueuedOwn /\ PendingOwn /\ EntriesHaveQueries /\ Held /\ RepliedOnce
      /\ AnswersOwnCommand /\ QueriesOwn /\ OneQueryPerCommand /\ LegsOnlyOfTwo
      /\ RelayHeldOnce /\ Serving
  BY <1>2, <1>4, <1>5, <1>6
     DEF Init, QueuedOwn, PendingOwn, EntriesHaveQueries, Held, RepliedOnce,
         AnswersOwnCommand, QueriesOwn, OneQueryPerCommand, LegsOnlyOfTwo,
         RelayHeldOnce, Serving
<1>8. QED
  BY <1>1, <1>3, <1>7 DEF IInv

(* Dial and the chaff task's commands.                                     *)
LEMMA QueueForNobody ==
  ASSUME IInv, TypeOK', NEW m \in Message, m.from \notin Calls,
         queue' = Append(queue, m), loop = "running",
         UNCHANGED <<callVars, oneshot, handle, loop, loopVars>>
  PROVE  IInv'
<1>1. TypeOK /\ QueuedOnce
  BY DEF IInv
<1>2. QueuedOnce' /\ \A c \in Calls, l \in CommandKinds : Queued(c, l)' <=> Queued(c, l)
  BY <1>1, AppendQueue
<1>3. (QueuedOwn /\ Held /\ OneQueryPerCommand)'
  BY <1>2 DEF IInv, QueuedOwn, Held, OneQueryPerCommand, QueryKind, callVars, loopVars
<1>4. (PendingOwn /\ EntriesHaveQueries /\ RepliedOnce /\ AnswersOwnCommand
        /\ QueriesOwn /\ LegsOnlyOfTwo /\ RelayHeldOnce)'
  BY DEF IInv, PendingOwn, EntriesHaveQueries, RepliedOnce, AnswersOwnCommand,
         QueriesOwn, LegsOnlyOfTwo, RelayHeldOnce, QueryKind, callVars, loopVars
<1>5. Serving'
  BY DEF IInv, Serving, callVars
<1>6. QED
  BY <1>2, <1>3, <1>4, <1>5 DEF IInv

(* A command answered at once, or one that has no reply.                   *)
LEMMA AnswerCommand ==
  ASSUME IInv, TypeOK', NEW k \in CommandKinds, TakeCommand(k), NEW r,
         Deliver(Head(queue).from, r),
         r.of = Head(queue).from, r.kind = k,
         UNCHANGED <<callVars, handle, loop, loopVars>>
  PROVE  IInv'
<1> DEFINE f == Head(queue).from
<1>1. TypeOK /\ QueuedOnce
  BY DEF IInv
<1>2. /\ QueuedOnce'
      /\ f \in Calls => Queued(f, k)
      /\ \A c \in Calls, l \in CommandKinds : Queued(c, l)' <=> Queued(c, l) /\ c # f
  BY <1>1, TakeQueue
<1>3. f \in Calls => /\ k = Command(op[f], leg[f])
                     /\ oneshot[f] = {}
                     /\ \A l \in Kinds, i \in Ids : pending[l][i] # f
  BY <1>2 DEF IInv, QueuedOwn
<1>4. \A c \in Calls : oneshot'[c] = IF c = f /\ at[c] = "waiting" THEN {r}
                                     ELSE oneshot[c]
  BY <1>1, <1>3 DEF Deliver, TypeOK
<1>5. \A c \in Calls, l \in CommandKinds : Queued(c, l) /\ c = f => l = k
  BY <1>3 DEF IInv, QueuedOwn
<1>6. (QueuedOwn /\ Held /\ OneQueryPerCommand)'
  BY <1>2, <1>4, <1>5
     DEF IInv, QueuedOwn, Held, OneQueryPerCommand, QueryKind, callVars, loopVars
<1>7. (PendingOwn /\ RepliedOnce /\ AnswersOwnCommand)'
  BY <1>3, <1>4 DEF IInv, PendingOwn, RepliedOnce, AnswersOwnCommand, callVars, loopVars
<1>8. (EntriesHaveQueries /\ QueriesOwn /\ LegsOnlyOfTwo /\ RelayHeldOnce)'
  BY DEF IInv, EntriesHaveQueries, QueriesOwn, LegsOnlyOfTwo, RelayHeldOnce,
         QueryKind, callVars, loopVars
<1>9. Serving'
  BY DEF IInv, Serving, TakeCommand, callVars
<1>10. QED
  BY <1>2, <1>6, <1>7, <1>8, <1>9 DEF IInv

(* An event that takes an entry out of its map and answers; the query ends *)
(* or goes on.                                                             *)
LEMMA AnswerQuery ==
  ASSUME IInv, TypeOK', NEW k \in Kinds, NEW i \in Ids, NEW r,
         Runs(i, k), relay[i] = Nobody, RemoveAndReply(k, i, r),
         r.of = swarm[i].from, r.kind = k,
         swarm' = swarm \/ Ended(i),
         UNCHANGED <<callVars, handle, chaff, queue, loop, relay, inbound>>
  PROVE  IInv'
<1> DEFINE o == pending[k][i]
<1>1. TypeOK /\ o \in Owners \cup {Nobody} /\ Nobody \notin Calls
  BY ConstantsAssumption DEF IInv, TypeOK
<1>2. /\ o # Nobody => swarm[i].from = o
      /\ \A l \in Kinds : l # k => pending[l][i] = Nobody
  BY DEF IInv, EntriesHaveQueries, Runs, Kinds
<1>3. o \in Calls => /\ at[o] \in {"waiting", "abandoned"}
                     /\ k = Command(op[o], leg[o])
                     /\ oneshot[o] = {}
                     /\ \A l \in Kinds, j \in Ids : pending[l][j] = o => l = k /\ j = i
                     /\ \A l \in CommandKinds : ~Queued(o, l)
  BY DEF IInv, PendingOwn, QueuedOwn
<1>4. \A c \in Calls : oneshot'[c] = IF c = o /\ at[c] = "waiting" THEN {r}
                                     ELSE oneshot[c]
  <2>1. DOMAIN oneshot = Calls
    BY <1>1 DEF TypeOK
  <2>2. oneshot' = IF o \in Calls /\ at[o] = "waiting"
                   THEN [oneshot EXCEPT ![o] = oneshot[o] \cup {r}] ELSE oneshot
    BY DEF RemoveAndReply, Deliver
  <2>3. QED
    BY <1>3, <2>1, <2>2
<1>5. \A l \in Kinds, j \in Ids :
        pending'[l][j] = IF l = k /\ j = i THEN Nobody ELSE pending[l][j]
  BY <1>1 DEF RemoveAndReply, TypeOK
<1>6. \A c \in Calls, l \in CommandKinds : Queued(c, l)' <=> Queued(c, l)
  BY DEF Queued
<1>7. \A j \in Ids : /\ swarm'[j] = swarm[j] \/ (j = i /\ swarm'[j] = Free)
                     /\ swarm'[j].from \in Calls => swarm'[j] = swarm[j]
  BY <1>1 DEF Ended, Free, TypeOK
<1>8. QueuedOnce' /\ QueuedOwn' /\ Held'
  BY <1>1, <1>3, <1>4, <1>5, <1>6
     DEF IInv, QueuedOnce, QueuedOwn, Held, callVars
<1>9. PendingOwn' /\ RepliedOnce' /\ AnswersOwnCommand'
  BY <1>1, <1>2, <1>3, <1>4, <1>5
     DEF IInv, PendingOwn, RepliedOnce, AnswersOwnCommand, callVars
<1>10. EntriesHaveQueries'
  BY <1>2, <1>5, <1>7 DEF IInv, EntriesHaveQueries
<1>11. QueriesOwn' /\ OneQueryPerCommand' /\ LegsOnlyOfTwo'
  BY <1>6, <1>7
     DEF IInv, QueriesOwn, OneQueryPerCommand, LegsOnlyOfTwo, QueryKind, callVars
<1>12. RelayHeldOnce'
  BY <1>1, <1>5, <1>7 DEF IInv, RelayHeldOnce, Kinds
<1>13. Serving'
  BY DEF IInv, Serving, callVars
<1>14. QED
  BY <1>8, <1>9, <1>10, <1>11, <1>12, <1>13 DEF IInv

(* A command that starts a query.                                          *)
LEMMA StartQueryIInv ==
  ASSUME IInv, TypeOK', NEW k \in Kinds, StartQuery(k)
  PROVE  IInv'
<1> DEFINE f == Head(queue).from
<1>1. TypeOK /\ QueuedOnce /\ TakeCommand(k) /\ k \in CommandKinds
      /\ Nobody \notin Calls \cup Inbound
  BY ConstantsAssumption DEF IInv, StartQuery, CommandKinds
<1>2. /\ f \in Owners
      /\ QueuedOnce'
      /\ f \in Calls => Queued(f, k)
      /\ \A c \in Calls, l \in CommandKinds : Queued(c, l)' <=> Queued(c, l) /\ c # f
  BY <1>1, TakeQueue DEF Message
<1>3. PICK i \in Ids :
        /\ swarm[i].kind = "free"
        /\ swarm' = [swarm EXCEPT ![i] = [kind |-> k, from |-> f, found |-> {}]]
        /\ pending' = [pending EXCEPT ![k][i] = f]
  BY DEF StartQuery
<1>4. ASSUME f \in Calls
      PROVE  /\ at[f] \in {"waiting", "abandoned"}
             /\ k = Command(op[f], leg[f])
             /\ oneshot[f] = {}
             /\ \A l \in Kinds, j \in Ids : pending[l][j] # f
             /\ \A l \in CommandKinds : Queued(f, l) => l = k
  <2>1. Queued(f, k) /\ QueuedOwn
    BY <1>2, <1>4 DEF IInv
  <2>2. QED
    BY <1>1, <1>4, <2>1 DEF QueuedOwn
<1>5. relay[i] = Nobody /\ \A l \in Kinds : pending[l][i] = Nobody
  BY <1>3 DEF IInv, EntriesHaveQueries, RelayHeldOnce, Kinds
<1>6. \A l \in Kinds, j \in Ids :
        pending'[l][j] = IF l = k /\ j = i THEN f ELSE pending[l][j]
  BY <1>1, <1>3 DEF TypeOK
<1>7. \A j \in Ids : swarm'[j] = IF j = i THEN [kind |-> k, from |-> f, found |-> {}]
                                 ELSE swarm[j]
  BY <1>1, <1>3 DEF TypeOK
<1>8. UNCHANGED <<at, op, leg, saved, result, oneshot, handle, chaff, loop,
                  relay, inbound>>
  BY DEF StartQuery, callVars
<1>9. QueuedOwn' /\ Held'
  BY <1>1, <1>2, <1>4, <1>5, <1>6, <1>8 DEF IInv, QueuedOwn, Held
<1>10. PendingOwn' /\ RepliedOnce' /\ AnswersOwnCommand' /\ LegsOnlyOfTwo'
  BY <1>4, <1>5, <1>6, <1>8
     DEF IInv, PendingOwn, RepliedOnce, AnswersOwnCommand, LegsOnlyOfTwo
<1>11. EntriesHaveQueries'
  BY <1>5, <1>6, <1>7 DEF IInv, EntriesHaveQueries
<1>12. QueriesOwn'
  BY <1>4, <1>7, <1>8 DEF IInv, QueriesOwn, QueryKind, Kinds
<1>13. OneQueryPerCommand'
  <2>1. f \in Calls => \A j \in Ids : swarm[j].from = f => QueryKind(j) # k
    BY <1>1, <1>2 DEF IInv, OneQueryPerCommand
  <2>2. \A j \in Ids : QueryKind(j)' = IF j = i THEN k ELSE QueryKind(j)
    BY <1>7 DEF QueryKind, Kinds
  <2>3. QED
    BY <1>2, <1>4, <1>7, <2>1, <2>2 DEF IInv, OneQueryPerCommand
<1>14. RelayHeldOnce'
  BY <1>5, <1>6, <1>7, <1>8 DEF IInv, RelayHeldOnce, Kinds
<1>15. Serving'
  BY <1>8 DEF IInv, Serving
<1>16. QED
  BY <1>2, <1>9, <1>10, <1>11, <1>12, <1>13, <1>14, <1>15 DEF IInv

(***************************************************************************)
(* The steps of the callers.                                               *)
(***************************************************************************)
LEMMA InvokeIInv ==
  ASSUME IInv, TypeOK', NEW c \in Calls, NEW o \in Ops, Invoke(c, o)
  PROVE  IInv'
<1> DEFINE m == [kind |-> Command(o, 1), from |-> c]
<1>1. TypeOK /\ QueuedOnce /\ m \in Message /\ at[c] = "idle" /\ o \in AllOps
  <2>1. Command(o, 1) \in CommandKinds /\ c \in Owners
    BY CommandType DEF CommandKinds, Kinds, Owners
  <2>2. QED
    BY <2>1, ConstantsAssumption DEF IInv, Invoke, Message
<1>2. /\ \A l \in CommandKinds : ~Queued(c, l)
      /\ \A l \in Kinds, i \in Ids : pending[l][i] # c
      /\ \A i \in Ids : swarm[i].from # c
      /\ leg[c] = 1 /\ oneshot[c] = {}
  <2>1. /\ \A l \in CommandKinds : ~Queued(c, l)
        /\ \A l \in Kinds, i \in Ids : pending[l][i] # c
        /\ \A i \in Ids : swarm[i].from # c
    BY <1>1 DEF IInv, QueuedOwn, PendingOwn, QueriesOwn
  <2>2. leg[c] # 2 /\ oneshot[c] = {}
    BY <1>1 DEF IInv, LegsOnlyOfTwo, RepliedOnce
  <2>3. leg[c] \in 1..2
    BY <1>1 DEF TypeOK
  <2>4. QED
    BY <2>1, <2>2, <2>3
<1>3. /\ QueuedOnce'
      /\ \A d \in Calls, l \in CommandKinds :
           Queued(d, l)' <=> Queued(d, l) \/ (d = c /\ l = Command(o, 1))
  BY <1>1, <1>2, AppendQueue DEF Invoke
<1>4. /\ \A d \in Calls : at'[d] = IF d = c THEN "waiting" ELSE at[d]
      /\ \A d \in Calls : op'[d] = IF d = c THEN o ELSE op[d]
      /\ UNCHANGED <<leg, saved, oneshot, result, handle, chaff, loop, loopVars>>
  BY <1>1 DEF Invoke, TypeOK
<1>5. QueuedOwn' /\ Held'
  BY <1>1, <1>2, <1>3, <1>4 DEF IInv, QueuedOwn, Held, Message, loopVars
<1>6. PendingOwn' /\ RepliedOnce' /\ AnswersOwnCommand' /\ LegsOnlyOfTwo'
  BY <1>2, <1>4 DEF IInv, PendingOwn, RepliedOnce, AnswersOwnCommand,
                    LegsOnlyOfTwo, loopVars
<1>7. EntriesHaveQueries' /\ RelayHeldOnce'
  BY <1>4 DEF IInv, EntriesHaveQueries, RelayHeldOnce, loopVars
<1>8. QueriesOwn' /\ OneQueryPerCommand'
  BY <1>2, <1>3, <1>4 DEF IInv, QueriesOwn, OneQueryPerCommand, QueryKind, loopVars
<1>9. Serving'
  BY <1>4 DEF IInv, Serving, Invoke
<1>10. QED
  BY <1>3, <1>5, <1>6, <1>7, <1>8, <1>9 DEF IInv

LEMMA ContinueCallIInv ==
  ASSUME IInv, TypeOK', NEW c \in Calls, ContinueCall(c)
  PROVE  IInv'
<1> DEFINE k == Command(op[c], 2)
           m == [kind |-> k, from |-> c]
<1>1. /\ TypeOK /\ QueuedOnce /\ m \in Message
      /\ at[c] = "waiting" /\ leg[c] = 1 /\ oneshot[c] # {}
      /\ op[c] \in {"start_providing", "get_providers"}
      /\ k # Command(op[c], 1)
  <2>1. k \in CommandKinds /\ c \in Owners
    BY CommandType DEF CommandKinds, Kinds, Owners
  <2>2. m \in Message
    BY <2>1 DEF Message
  <2>3. /\ at[c] = "waiting" /\ leg[c] = 1 /\ oneshot[c] # {}
        /\ op[c] \in {"start_providing", "get_providers"}
    BY DEF ContinueCall, TwoLegs
  <2>4. k # Command(op[c], 1)
    BY <2>3, SecondCommand
  <2>5. QED
    BY <2>2, <2>3, <2>4 DEF IInv
<1>2. /\ \A l \in CommandKinds : ~Queued(c, l)
      /\ \A l \in Kinds, i \in Ids : pending[l][i] # c
      /\ \A i \in Ids : swarm[i].from = c => QueryKind(i) = Command(op[c], 1)
  BY <1>1 DEF IInv, QueuedOwn, PendingOwn, QueriesOwn
<1>3. /\ QueuedOnce'
      /\ \A d \in Calls, l \in CommandKinds :
           Queued(d, l)' <=> Queued(d, l) \/ (d = c /\ l = k)
  BY <1>1, <1>2, AppendQueue DEF ContinueCall
<1>4. /\ \A d \in Calls : oneshot'[d] = IF d = c THEN {} ELSE oneshot[d]
      /\ \A d \in Calls : leg'[d] = IF d = c THEN 2 ELSE leg[d]
      /\ UNCHANGED <<at, op, result, handle, chaff, loop, loopVars>>
  BY <1>1 DEF ContinueCall, TypeOK
<1>5. QueuedOwn' /\ Held'
  BY <1>1, <1>2, <1>3, <1>4 DEF IInv, QueuedOwn, Held, Message, loopVars
<1>6. PendingOwn' /\ RepliedOnce' /\ AnswersOwnCommand' /\ LegsOnlyOfTwo'
  BY <1>1, <1>2, <1>4 DEF IInv, PendingOwn, RepliedOnce, AnswersOwnCommand,
                          LegsOnlyOfTwo, loopVars
<1>7. EntriesHaveQueries' /\ RelayHeldOnce'
  BY <1>4 DEF IInv, EntriesHaveQueries, RelayHeldOnce, loopVars
<1>8. QueriesOwn' /\ OneQueryPerCommand'
  BY <1>1, <1>2, <1>3, <1>4
     DEF IInv, QueriesOwn, OneQueryPerCommand, QueryKind, loopVars
<1>9. Serving'
  BY <1>4 DEF IInv, Serving
<1>10. QED
  BY <1>3, <1>5, <1>6, <1>7, <1>8, <1>9 DEF IInv

(* A call that returns or is abandoned.                                    *)
LEMMA LeaveIInv ==
  ASSUME IInv, TypeOK', NEW c \in Calls, Abandon(c) \/ Return(c)
  PROVE  IInv'
<1>1. TypeOK /\ at[c] = "waiting"
  BY DEF IInv, Abandon, Return
<1>2. /\ \A d \in Calls : oneshot'[d] = IF d = c THEN {} ELSE oneshot[d]
      /\ \A d \in Calls : d # c => at'[d] = at[d]
      /\ at'[c] = IF Abandon(c) THEN "abandoned" ELSE "returned"
      /\ UNCHANGED <<op, leg, handle, chaff, queue, loop, loopVars>>
  BY <1>1 DEF Abandon, Return, TypeOK
<1>3. \A d \in Calls, l \in CommandKinds : Queued(d, l)' <=> Queued(d, l)
  BY <1>2 DEF Queued
<1>4. ~Abandon(c) => /\ \A l \in CommandKinds : ~Queued(c, l)
                     /\ \A l \in Kinds, i \in Ids : pending[l][i] # c
  <2>1. ~Abandon(c) => oneshot[c] # {}
    BY DEF Return
  <2>2. QED
    BY <2>1 DEF IInv, QueuedOwn, PendingOwn
<1>5. QueuedOnce' /\ QueuedOwn' /\ Held'
  BY <1>1, <1>2, <1>3, <1>4 DEF IInv, QueuedOnce, QueuedOwn, Held, loopVars
<1>6. PendingOwn' /\ RepliedOnce' /\ AnswersOwnCommand' /\ LegsOnlyOfTwo'
  BY <1>1, <1>2, <1>4 DEF IInv, PendingOwn, RepliedOnce, AnswersOwnCommand,
                          LegsOnlyOfTwo, loopVars
<1>7. EntriesHaveQueries' /\ RelayHeldOnce'
  BY <1>2 DEF IInv, EntriesHaveQueries, RelayHeldOnce, loopVars
<1>8. QueriesOwn' /\ OneQueryPerCommand'
  BY <1>1, <1>2, <1>3 DEF IInv, QueriesOwn, OneQueryPerCommand, QueryKind, loopVars
<1>9. Serving'
  BY <1>2 DEF IInv, Serving
<1>10. QED
  BY <1>5, <1>6, <1>7, <1>8, <1>9 DEF IInv

LEMMA DropHandleIInv ==
  ASSUME IInv, TypeOK', DropHandle
  PROVE  IInv'
<1>1. \A d \in Calls, l \in CommandKinds : Queued(d, l)' <=> Queued(d, l)
  BY DEF Queued, DropHandle
<1>2. QED
  BY <1>1 DEF IInv, DropHandle, QueuedOnce, QueuedOwn, Held, PendingOwn,
     EntriesHaveQueries, RepliedOnce, AnswersOwnCommand, QueriesOwn,
     OneQueryPerCommand, LegsOnlyOfTwo, RelayHeldOnce, Serving, QueryKind,
     callVars, loopVars

(***************************************************************************)
(* The steps of the loop that answer no call.                              *)
(***************************************************************************)
LEMMA ListenerClosedIInv ==
  ASSUME IInv, TypeOK', NEW i \in Ids, ListenerClosed(i)
  PROVE  IInv'
<1>1. TypeOK /\ swarm[i].kind = "ListenOn"
  BY DEF IInv, ListenerClosed, Runs
<1>2. \A j \in Ids : /\ swarm'[j].from = swarm[j].from
                     /\ swarm'[j].kind = IF j = i THEN "closed" ELSE swarm[j].kind
                     /\ QueryKind(j)' = QueryKind(j)
  BY <1>1 DEF ListenerClosed, QueryKind, TypeOK
<1>3. \A d \in Calls, l \in CommandKinds : Queued(d, l)' <=> Queued(d, l)
  BY DEF Queued, ListenerClosed
<1>4. EntriesHaveQueries' /\ RelayHeldOnce'
  BY <1>1, <1>2 DEF IInv, ListenerClosed, EntriesHaveQueries, RelayHeldOnce
<1>5. QueriesOwn' /\ OneQueryPerCommand'
  BY <1>2, <1>3 DEF IInv, ListenerClosed, QueriesOwn, OneQueryPerCommand, callVars
<1>6. QED
  BY <1>3, <1>4, <1>5 DEF IInv, ListenerClosed, QueuedOnce, QueuedOwn, Held,
     PendingOwn, RepliedOnce, AnswersOwnCommand, LegsOnlyOfTwo, Serving, callVars

LEMMA FoundProvidersIInv ==
  ASSUME IInv, TypeOK', NEW i \in Ids, NEW ps \in SUBSET Peers,
         FoundProviders(i, ps)
  PROVE  IInv'
<1>1. \A j \in Ids : /\ swarm'[j].from = swarm[j].from
                     /\ swarm'[j].kind = swarm[j].kind
                     /\ QueryKind(j)' = QueryKind(j)
  BY DEF IInv, FoundProviders, QueryKind, TypeOK
<1>2. \A d \in Calls, l \in CommandKinds : Queued(d, l)' <=> Queued(d, l)
  BY DEF Queued, FoundProviders
<1>3. EntriesHaveQueries' /\ RelayHeldOnce' /\ QueriesOwn' /\ OneQueryPerCommand'
  BY <1>1, <1>2 DEF IInv, FoundProviders, EntriesHaveQueries, RelayHeldOnce,
     QueriesOwn, OneQueryPerCommand, callVars
<1>4. QED
  BY <1>2, <1>3 DEF IInv, FoundProviders, QueuedOnce, QueuedOwn, Held,
     PendingOwn, RepliedOnce, AnswersOwnCommand, LegsOnlyOfTwo, Serving, callVars

(* The steps of the relay map: a response goes back, a packet is sent on,  *)
(* a request is answered in place.                                         *)
LEMMA RelayReturnsIInv ==
  ASSUME IInv, TypeOK', NEW i \in Ids, RelayReturns(i)
  PROVE  IInv'
<1>1. TypeOK /\ Nobody \notin Calls \cup Inbound
  BY ConstantsAssumption DEF IInv
<1>2. /\ relay[i] \in Inbound
      /\ \A j \in Ids : relay[j] = relay[i] => i = j
      /\ \A l \in Kinds : pending[l][i] = Nobody
  <2>1. relay[i] \in Inbound /\ relay[i] # Nobody /\ swarm[i].kind = "SendBlockRequest"
    BY <1>1 DEF RelayReturns, Runs, TypeOK
  <2>2. /\ \A j \in Ids : relay[j] = relay[i] => i = j
        /\ pending["SendBlockRequest"][i] = Nobody
    BY <2>1 DEF IInv, RelayHeldOnce
  <2>3. \A l \in Kinds : l # "SendBlockRequest" => pending[l][i] = Nobody
    BY <2>1 DEF IInv, EntriesHaveQueries
  <2>4. QED
    BY <2>1, <2>2, <2>3
<1>3. \A j \in Ids : /\ swarm'[j] = IF j = i THEN Free ELSE swarm[j]
                     /\ relay'[j] = IF j = i THEN Nobody ELSE relay[j]
  BY <1>1 DEF RelayReturns, Ended, TypeOK
<1>4. \A b \in Inbound : inbound'[b] = IF b = relay[i] THEN "answered" ELSE inbound[b]
  BY <1>1 DEF RelayReturns, TypeOK
<1>5. \A d \in Calls, l \in CommandKinds : Queued(d, l)' <=> Queued(d, l)
  BY DEF Queued, RelayReturns
<1>6. RelayHeldOnce'
  BY <1>1, <1>2, <1>3, <1>4 DEF IInv, RelayHeldOnce, RelayReturns
<1>7. EntriesHaveQueries'
  BY <1>2, <1>3 DEF IInv, EntriesHaveQueries, RelayReturns
<1>8. QueriesOwn' /\ OneQueryPerCommand'
  BY <1>1, <1>3, <1>5
     DEF IInv, QueriesOwn, OneQueryPerCommand, QueryKind, Free, RelayReturns, callVars
<1>9. QED
  BY <1>5, <1>6, <1>7, <1>8 DEF IInv, RelayReturns, QueuedOnce, QueuedOwn, Held,
     PendingOwn, RepliedOnce, AnswersOwnCommand, LegsOnlyOfTwo, Serving, callVars

LEMMA RelayOnionIInv ==
  ASSUME IInv, TypeOK', NEW b \in Inbound, RelayOnion(b)
  PROVE  IInv'
<1>1. TypeOK /\ Nobody \notin Calls \cup Inbound /\ NoReceiver \notin Calls
  BY ConstantsAssumption DEF IInv
<1>2. PICK i \in Ids :
        /\ swarm[i].kind = "free"
        /\ swarm' = [swarm EXCEPT ![i] = [kind |-> "SendBlockRequest",
                                        from |-> NoReceiver, found |-> {}]]
        /\ relay' = [relay EXCEPT ![i] = b]
  BY DEF RelayOnion
<1>3. relay[i] = Nobody /\ \A l \in Kinds : pending[l][i] = Nobody
  BY <1>2 DEF IInv, EntriesHaveQueries, RelayHeldOnce, Kinds
<1>4. \A j \in Ids : /\ relay[j] # b
                     /\ relay'[j] = IF j = i THEN b ELSE relay[j]
  <2>1. inbound[b] # "open"
    BY DEF RelayOnion
  <2>2. QED
    BY <1>1, <1>2, <2>1 DEF IInv, RelayHeldOnce, TypeOK
<1>5. \A j \in Ids : swarm'[j] = IF j = i THEN [kind |-> "SendBlockRequest",
                                                from |-> NoReceiver, found |-> {}]
                                 ELSE swarm[j]
  BY <1>1, <1>2 DEF TypeOK
<1>6. \A a \in Inbound : inbound'[a] = IF a = b THEN "open" ELSE inbound[a]
  BY <1>1 DEF RelayOnion, TypeOK
<1>7. \A d \in Calls, l \in CommandKinds : Queued(d, l)' <=> Queued(d, l)
  BY DEF Queued, RelayOnion
<1>8. RelayHeldOnce'
  BY <1>1, <1>3, <1>4, <1>5, <1>6, <1>2 DEF IInv, RelayHeldOnce, RelayOnion, Kinds
<1>9. EntriesHaveQueries'
  BY <1>3, <1>5 DEF IInv, EntriesHaveQueries, RelayOnion
<1>10. QueriesOwn' /\ OneQueryPerCommand'
  BY <1>1, <1>5, <1>7
     DEF IInv, QueriesOwn, OneQueryPerCommand, QueryKind, RelayOnion, callVars
<1>11. QED
  BY <1>7, <1>8, <1>9, <1>10 DEF IInv, RelayOnion, QueuedOnce, QueuedOwn, Held,
     PendingOwn, RepliedOnce, AnswersOwnCommand, LegsOnlyOfTwo, Serving, callVars

LEMMA AnswerInboundIInv ==
  ASSUME IInv, TypeOK', NEW b \in Inbound, AnswerInbound(b)
  PROVE  IInv'
<1>1. \A a \in Inbound : inbound'[a] = "open" <=> inbound[a] = "open"
  BY DEF IInv, AnswerInbound, TypeOK
<1>2. RelayHeldOnce'
  BY <1>1 DEF IInv, RelayHeldOnce, AnswerInbound
<1>3. QED
  BY <1>2 DEF IInv, AnswerInbound, QueuedOnce, QueuedOwn, Held, PendingOwn,
     EntriesHaveQueries, RepliedOnce, AnswersOwnCommand, QueriesOwn,
     OneQueryPerCommand, LegsOnlyOfTwo, Serving, QueryKind, Queued, callVars

(* The loop stops only when no call waits, so the maps it drops hold no    *)
(* sender that somebody still waits on.                                    *)
LEMMA StopLoopIInv ==
  ASSUME IInv, TypeOK', StopLoop
  PROVE  IInv'
<1>1. Nobody \notin Calls \cup Inbound
  BY ConstantsAssumption
<1>2. /\ \A k \in Kinds, i \in Ids : pending'[k][i] = Nobody
      /\ \A i \in Ids : relay'[i] = Nobody /\ swarm'[i] = Free
      /\ \A b \in Inbound : inbound'[b] # "open"
      /\ \A c \in Calls : at[c] # "waiting"
  BY DEF IInv, StopLoop, DropLoop, Serving
<1>3. \A d \in Calls, l \in CommandKinds : Queued(d, l)' <=> Queued(d, l)
  BY DEF Queued, StopLoop, DropLoop
<1>4. QueuedOwn' /\ Held' /\ PendingOwn' /\ EntriesHaveQueries' /\ RelayHeldOnce'
  BY <1>1, <1>2, <1>3
     DEF IInv, StopLoop, DropLoop, QueuedOwn, Held, PendingOwn, EntriesHaveQueries,
         RelayHeldOnce, callVars
<1>5. QueriesOwn' /\ OneQueryPerCommand'
  BY <1>1, <1>2 DEF QueriesOwn, OneQueryPerCommand, Free
<1>6. QED
  BY <1>2, <1>4, <1>5 DEF IInv, StopLoop, DropLoop, QueuedOnce, RepliedOnce,
     AnswersOwnCommand, LegsOnlyOfTwo, Serving, callVars

-----------------------------------------------------------------------------
LEMMA NextIInv == IInv /\ [Next]_vars => IInv'
<1> SUFFICES ASSUME IInv, [Next]_vars PROVE IInv'
  OBVIOUS
<1>1. TypeOK /\ TypeOK'
  BY NextType DEF IInv
<1>2. ASSUME NEW c \in Calls, NEW o \in Ops, Invoke(c, o) PROVE IInv'
  BY <1>1, <1>2, InvokeIInv
<1>3. ASSUME NEW c \in Calls, Abandon(c) PROVE IInv'
  BY <1>1, <1>3, LeaveIInv
<1>4. ASSUME NEW c \in Calls, CallerStep(c) PROVE IInv'
  BY <1>1, <1>4, LeaveIInv, ContinueCallIInv DEF CallerStep
<1>5. Chaff \notin Calls /\ NoReceiver \notin Calls
  BY ConstantsAssumption
<1>6. CASE Dial
  <2> DEFINE m == [kind |-> "DialAddr", from |-> NoReceiver]
  <2>1. m \in Message /\ m.from \notin Calls
    BY <1>5 DEF Message, CommandKinds, Owners
  <2>2. /\ queue' = Append(queue, m) /\ loop = "running"
        /\ UNCHANGED <<callVars, oneshot, handle, loop, loopVars>>
    BY <1>6 DEF Dial, IInv, Serving
  <2>3. QED
    BY <1>1, <2>1, <2>2, QueueForNobody
<1>7. CASE DropHandle
  BY <1>1, <1>7, DropHandleIInv
<1>8. CASE ChaffAsk
  <2> DEFINE m == [kind |-> "KnownPeers", from |-> Chaff]
  <2>1. m \in Message /\ m.from \notin Calls
    BY <1>5 DEF Message, CommandKinds, Owners
  <2>2. /\ queue' = Append(queue, m) /\ loop = "running"
        /\ UNCHANGED <<callVars, oneshot, handle, loop, loopVars>>
    BY <1>8 DEF ChaffAsk, IInv, Serving
  <2>3. QED
    BY <1>1, <2>1, <2>2, QueueForNobody
<1>9. CASE ChaffSend
  <2> DEFINE m == [kind |-> "SendBlockRequest", from |-> NoReceiver]
  <2>1. m \in Message /\ m.from \notin Calls
    BY <1>5 DEF Message, CommandKinds, Kinds, Owners
  <2>2. /\ queue' = Append(queue, m) /\ loop = "running"
        /\ UNCHANGED <<callVars, oneshot, handle, loop, loopVars>>
    BY <1>9 DEF ChaffSend, IInv, Serving
  <2>3. QED
    BY <1>1, <2>1, <2>2, QueueForNobody
<1>10. CASE CommandStep
  <2>1. ASSUME NEW k \in Kinds, StartQuery(k) PROVE IInv'
    BY <1>1, <2>1, StartQueryIInv
  <2>2. ASSUME NEW k \in Kinds, RefuseQuery(k) PROVE IInv'
    <3> DEFINE r == Error(Head(queue).from, k)
    <3>1. k \in CommandKinds /\ r.of = Head(queue).from /\ r.kind = k
      BY DEF CommandKinds, Error
    <3>2. /\ TakeCommand(k) /\ Deliver(Head(queue).from, r)
          /\ UNCHANGED <<callVars, handle, loop, loopVars>>
      BY <2>2 DEF RefuseQuery
    <3>3. QED
      BY <1>1, <3>1, <3>2, AnswerCommand
  <2>3. ASSUME NEW ps \in SUBSET Peers, AnswerKnownPeers(ps) PROVE IInv'
    <3> DEFINE k == "KnownPeers"
               r == [ok |-> TRUE, of |-> Head(queue).from, kind |-> "KnownPeers",
                     peers |-> ps, body |-> "none"]
    <3>1. k \in CommandKinds /\ r.of = Head(queue).from /\ r.kind = k
      BY DEF CommandKinds
    <3>2. /\ TakeCommand(k) /\ Deliver(Head(queue).from, r)
          /\ UNCHANGED <<callVars, handle, loop, loopVars>>
      BY <2>3 DEF AnswerKnownPeers
    <3>3. QED
      BY <1>1, <3>1, <3>2, AnswerCommand
  <2>4. CASE ProcessDial
    <3> DEFINE k == "DialAddr"
               f == Head(queue).from
               r == Error(f, k)
    <3>1. k \in CommandKinds /\ r.of = f /\ r.kind = k
      BY DEF CommandKinds, Error
    <3>2. /\ TakeCommand(k)
          /\ UNCHANGED <<callVars, oneshot, handle, loop, loopVars>>
      BY <2>4 DEF ProcessDial
    <3>3. f \notin Calls
      <4>1. f \in Calls => Queued(f, k)
        BY <1>1, <3>2, TakeQueue DEF IInv
      <4>2. f \in Calls => k = Command(op[f], leg[f])
        BY <3>1, <4>1 DEF IInv, QueuedOwn
      <4>3. QED
        BY <4>2, CommandType
    <3>4. Deliver(f, r)
      BY <3>2, <3>3 DEF Deliver
    <3>5. QED
      BY <1>1, <3>1, <3>2, <3>4, AnswerCommand
  <2>5. CASE StopLoop
    BY <1>1, <2>5, StopLoopIInv
  <2>6. QED
    BY <1>10, <2>1, <2>2, <2>3, <2>4, <2>5 DEF CommandStep
<1>11. ASSUME NEW i \in Ids, NEW k \in Kinds, Runs(i, k), k # "SendBlockRequest"
       PROVE  relay[i] = Nobody
  BY <1>11 DEF IInv, RelayHeldOnce, Runs
<1>12. ASSUME NEW i \in Ids, NEW k \in Kinds, NEW ps, NEW b, Runs(i, k)
       PROVE  /\ Answer(i, ps, b).of = swarm[i].from /\ Answer(i, ps, b).kind = k
              /\ Failure(i).of = swarm[i].from /\ Failure(i).kind = k
  BY <1>12 DEF Runs, Answer, Failure, Error
<1>13. ASSUME NEW i \in Ids, QueryEnds(i) PROVE IInv'
  <2>1. CASE GetRecordEnds(i)
    BY <1>1, <1>11, <1>12, <2>1, AnswerQuery DEF GetRecordEnds, Kinds
  <2>2. ASSUME NEW k \in Kinds, NEW ok \in BOOLEAN, StoreQueryEnds(k, i, ok)
        PROVE  IInv'
    <3> DEFINE r == IF ok THEN Answer(i, {}, "none") ELSE Failure(i)
    <3>1. /\ Runs(i, k) /\ k # "SendBlockRequest" /\ RemoveAndReply(k, i, r)
          /\ Ended(i)
          /\ UNCHANGED <<callVars, handle, chaff, queue, loop, relay, inbound>>
      BY <2>2 DEF StoreQueryEnds
    <3>2. r.of = swarm[i].from /\ r.kind = k /\ relay[i] = Nobody
      BY <1>11, <1>12, <3>1
    <3>3. QED
      BY <1>1, <3>1, <3>2, AnswerQuery
  <2>3. ASSUME NEW ps \in SUBSET Peers, LastProviders(i, ps) PROVE IInv'
    BY <1>1, <1>11, <1>12, <2>3, AnswerQuery DEF LastProviders, Kinds
  <2>4. CASE GetProvidersFails(i)
    BY <1>1, <1>11, <1>12, <2>4, AnswerQuery DEF GetProvidersFails, Kinds
  <2>5. CASE RelayReturns(i)
    BY <1>1, <2>5, RelayReturnsIInv
  <2>6. ASSUME NEW b \in ResponseBodies, Responded(i, b) PROVE IInv'
    BY <1>1, <1>12, <2>6, AnswerQuery DEF Responded, RequestReturns, Kinds
  <2>7. CASE OutboundFailure(i)
    BY <1>1, <1>12, <2>7, AnswerQuery DEF OutboundFailure, RequestReturns, Kinds
  <2>8. QED
    BY <1>13, <2>1, <2>2, <2>3, <2>4, <2>5, <2>6, <2>7 DEF QueryEnds
<1>14. ASSUME NEW i \in Ids, QueryProgresses(i) PROVE IInv'
  <2>1. CASE NewListenAddr(i)
    BY <1>1, <1>11, <1>12, <2>1, AnswerQuery DEF NewListenAddr, Kinds
  <2>2. CASE ListenerClosed(i)
    BY <1>1, <2>2, ListenerClosedIInv
  <2>3. ASSUME NEW b \in RecordBodies, FoundRecord(i, b) PROVE IInv'
    BY <1>1, <1>11, <1>12, <2>3, AnswerQuery DEF FoundRecord, Kinds
  <2>4. ASSUME NEW ps \in SUBSET Peers, FoundProviders(i, ps) PROVE IInv'
    BY <1>1, <2>4, FoundProvidersIInv
  <2>5. QED
    BY <1>14, <2>1, <2>2, <2>3, <2>4 DEF QueryProgresses
<1>15. ASSUME NEW b \in Inbound, AnswerInbound(b) \/ RelayOnion(b) PROVE IInv'
  BY <1>1, <1>15, AnswerInboundIInv, RelayOnionIInv
<1>16. CASE UNCHANGED vars
  BY <1>1, <1>16
     DEF vars, IInv, QueuedOnce, QueuedOwn, Held, PendingOwn, EntriesHaveQueries,
         RepliedOnce, AnswersOwnCommand, QueriesOwn, OneQueryPerCommand,
         LegsOnlyOfTwo, RelayHeldOnce, Serving, QueryKind, Queued
<1>17. QED
  BY <1>2, <1>3, <1>4, <1>6, <1>7, <1>8, <1>9, <1>10, <1>13, <1>14, <1>15, <1>16
     DEF Next, ChaffStep

-----------------------------------------------------------------------------
(***************************************************************************)
(* What the inductive invariant implies.                                   *)
(***************************************************************************)
(* The strengthened invariant holds in every reachable state: it is what   *)
(* each of the theorems below rests on.                                    *)
THEOREM InductiveInvariant == Spec => []IInv
<1>1. IInv /\ [Next]_vars => IInv'
  BY NextIInv
<1>2. QED
  BY InitIInv, <1>1, PTL DEF Spec

LEMMA PlaceKinds ==
  ASSUME IInv, NEW c \in Calls, NEW p \in Places(c)
  PROVE  \/ \E n \in 1..Len(queue) : /\ p = <<"queue", n>>
                                     /\ queue[n].from = c
                                     /\ Queued(c, queue[n].kind)
                                     /\ queue[n].kind \in CommandKinds
         \/ \E k \in Kinds, i \in Ids : p = <<k, i>> /\ pending[k][i] = c
         \/ \E r \in oneshot[c] : p = <<"reply", r>>
<1>1. CASE p \in {<<"queue", n>> : n \in {m \in 1..Len(queue) : queue[m].from = c}}
  <2>1. PICK n \in 1..Len(queue) : p = <<"queue", n>> /\ queue[n].from = c
    BY <1>1
  <2>2. queue \in Seq(Message)
    BY DEF IInv, TypeOK, Message
  <2>3. queue[n] \in Message
    BY <2>2
  <2>4. QED
    BY <2>1, <2>3 DEF Queued, Message
<1>2. CASE p \in {q \in Kinds \X Ids : pending[q[1]][q[2]] = c}
  <2>1. p \in Kinds \X Ids /\ pending[p[1]][p[2]] = c
    BY <1>2
  <2>2. p[1] \in Kinds /\ p[2] \in Ids /\ p = <<p[1], p[2]>>
    BY <2>1
  <2>3. QED
    BY <2>1, <2>2
<1>3. CASE p \in {<<"reply", r>> : r \in oneshot[c]}
  BY <1>3
<1>4. QED
  BY <1>1, <1>2, <1>3 DEF Places

LEMMA OnePlace == IInv => ReplyHeldOnce
<1> SUFFICES ASSUME IInv, NEW c \in Calls
             PROVE  /\ at[c] = "waiting" => \E p \in Places(c) : Places(c) = {p}
                    /\ at[c] \in {"idle", "returned"} => Places(c) = {}
                    /\ at[c] = "abandoned" => \A p, q \in Places(c) : p = q
  BY DEF ReplyHeldOnce
<1>1. ASSUME NEW p \in Places(c), NEW q \in Places(c) PROVE p = q
  <2>1. CASE \E n \in 1..Len(queue) : /\ p = <<"queue", n>> /\ queue[n].from = c
                                     /\ Queued(c, queue[n].kind)
                                     /\ queue[n].kind \in CommandKinds
    <3>1. oneshot[c] = {} /\ \A l \in Kinds, i \in Ids : pending[l][i] # c
      BY <2>1 DEF IInv, QueuedOwn
    <3>2. PICK m \in 1..Len(queue) : q = <<"queue", m>> /\ queue[m].from = c
      BY <3>1, PlaceKinds
    <3>3. QED
      BY <2>1, <3>2 DEF IInv, QueuedOnce
  <2>2. CASE \E k \in Kinds, i \in Ids : p = <<k, i>> /\ pending[k][i] = c
    <3>1. PICK k \in Kinds, i \in Ids : p = <<k, i>> /\ pending[k][i] = c
      BY <2>2
    <3>2. /\ oneshot[c] = {}
          /\ \A l \in Kinds, j \in Ids : pending[l][j] = c => l = k /\ j = i
          /\ \A l \in CommandKinds : ~Queued(c, l)
      BY <3>1 DEF IInv, PendingOwn, QueuedOwn
    <3>3. \E l \in Kinds, j \in Ids : q = <<l, j>> /\ pending[l][j] = c
      BY <3>2, PlaceKinds
    <3>4. QED
      BY <3>1, <3>2, <3>3
  <2>3. CASE \E r \in oneshot[c] : p = <<"reply", r>>
    <3>1. /\ \A l \in CommandKinds : ~Queued(c, l)
          /\ \A l \in Kinds, i \in Ids : pending[l][i] # c
          /\ \A r, s \in oneshot[c] : r = s
      BY <2>3 DEF IInv, QueuedOwn, PendingOwn, RepliedOnce
    <3>2. \E r \in oneshot[c] : q = <<"reply", r>>
      BY <3>1, PlaceKinds
    <3>3. QED
      BY <2>3, <3>1, <3>2
  <2>4. QED
    BY <2>1, <2>2, <2>3, PlaceKinds
<1>2. ASSUME at[c] = "waiting" PROVE Places(c) # {}
  <2>1. CASE oneshot[c] # {}
    BY <2>1 DEF Places
  <2>2. CASE \E k \in CommandKinds : Queued(c, k)
    BY <2>2 DEF Places, Queued
  <2>3. CASE \E k \in Kinds, i \in Ids : pending[k][i] = c
    <3>1. PICK k \in Kinds, i \in Ids : pending[k][i] = c
      BY <2>3
    <3>2. <<k, i>> \in Places(c)
      BY <3>1 DEF Places
    <3>3. QED
      BY <3>2
  <2>4. QED
    BY <1>2, <2>1, <2>2, <2>3 DEF IInv, Held
<1>3. ASSUME at[c] \in {"idle", "returned"} PROVE Places(c) = {}
  <2>1. /\ \A l \in CommandKinds : ~Queued(c, l)
        /\ \A l \in Kinds, i \in Ids : pending[l][i] # c
        /\ oneshot[c] = {}
    BY <1>3 DEF IInv, QueuedOwn, PendingOwn, RepliedOnce
  <2>2. QED
    BY <2>1, PlaceKinds
<1>4. QED
  BY <1>1, <1>2, <1>3

(* A waiting call's sender, or the reply sent on it, is in exactly one of  *)
(* the queue, the six maps and the oneshot: no handler, error path or      *)
(* early return of the loop loses or doubles an answer.                    *)
THEOREM RepliesHeldOnce == Spec => []ReplyHeldOnce
  BY InductiveInvariant, OnePlace, PTL

(* A reply is for the call that gets it, and for the command of the two    *)
(* that this call waits for: ids of one map never answer for another.      *)
THEOREM RepliesAreOwn == Spec => []AnswersOwnCommand
<1>1. IInv => AnswersOwnCommand
  BY DEF IInv
<1>2. QED
  BY InductiveInvariant, <1>1, PTL

(* No pending map keeps an entry whose query is over, so they do not grow  *)
(* with the callers that gave up.                                          *)
THEOREM NoStaleEntries == Spec => []EntriesHaveQueries
<1>1. IInv => EntriesHaveQueries
  BY DEF IInv
<1>2. QED
  BY InductiveInvariant, <1>1, PTL

(* A command is carried out once, however its caller ends.                 *)
THEOREM CommandsRunOnce == Spec => []OneQueryPerCommand
<1>1. IInv => OneQueryPerCommand
  BY DEF IInv
<1>2. QED
  BY InductiveInvariant, <1>1, PTL

(* A relayed request has one parked channel until it is answered, under an *)
(* id that answers no call.                                                *)
THEOREM RelaysHeldOnce == Spec => []RelayHeldOnce
<1>1. IInv => RelayHeldOnce
  BY DEF IInv
<1>2. QED
  BY InductiveInvariant, <1>1, PTL

(* The loop never stops while somebody can still send it a command.        *)
THEOREM LoopOutlivesSenders == Spec => []SendersKeepLoop
<1>1. IInv => SendersKeepLoop
  BY DEF IInv, Serving, SendersKeepLoop, TypeOK
<1>2. QED
  BY InductiveInvariant, <1>1, PTL

-----------------------------------------------------------------------------
(***************************************************************************)
(* What get_providers is given.  The set kept beside a parked sender has   *)
(* everything its query reported so far; a sender removed early, a set     *)
(* cleared before the last event or an entry left by an earlier query      *)
(* would break it.                                                         *)
(***************************************************************************)
CollectsAll ==
  \A i \in Ids :
    swarm[i].kind = "GetProviders" /\ pending["GetProviders"][i] # Nobody =>
      swarm[i].found \subseteq collected[i]

LEMMA CollectsNext == IInv /\ CollectsAll /\ [Next]_vars => CollectsAll'
<1> SUFFICES ASSUME IInv, CollectsAll, [Next]_vars PROVE CollectsAll'
  OBVIOUS
<1> USE DEF callVars, loopVars
<1>1. TypeOK
  BY DEF IInv
<1>2. ASSUME UNCHANGED <<pending, collected, swarm>> PROVE CollectsAll'
  BY <1>2 DEF CollectsAll
<1>3. ASSUME NEW i \in Ids, Ended(i), UNCHANGED collected,
             \A j \in Ids : j # i =>
               pending'["GetProviders"][j] = pending["GetProviders"][j]
      PROVE  CollectsAll'
  BY <1>1, <1>3 DEF CollectsAll, Ended, Free, TypeOK
<1>4. ASSUME NEW i \in Ids, NEW k \in Kinds, NEW r, RemoveAndReply(k, i, r)
      PROVE  \A j \in Ids : j # i =>
               pending'["GetProviders"][j] = pending["GetProviders"][j]
  BY <1>1, <1>4 DEF RemoveAndReply, TypeOK, Kinds
<1>5. ASSUME NEW i \in Ids, NEW k \in Kinds \ {"GetProviders"}, NEW r,
             RemoveAndReply(k, i, r), UNCHANGED <<collected, swarm>>
      PROVE  CollectsAll'
  BY <1>1, <1>5 DEF CollectsAll, RemoveAndReply, TypeOK, Kinds
<1>6. ASSUME NEW i \in Ids, Ended(i), collected' = [collected EXCEPT ![i] = {}],
             NEW r, RemoveAndReply("GetProviders", i, r)
      PROVE  CollectsAll'
  BY <1>1, <1>4, <1>6 DEF CollectsAll, Ended, Free, TypeOK, Kinds
<1>7. ASSUME NEW k \in Kinds, StartQuery(k) PROVE CollectsAll'
  <2>1. PICK i \in Ids :
          /\ swarm[i].kind = "free"
          /\ swarm' = [swarm EXCEPT ![i] =
                        [kind |-> k, from |-> Head(queue).from, found |-> {}]]
          /\ pending' = [pending EXCEPT ![k][i] = Head(queue).from]
    BY <1>7 DEF StartQuery
  <2>2. UNCHANGED collected
    BY <1>7 DEF StartQuery
  <2>3. \A j \in Ids : j # i =>
          /\ swarm'[j] = swarm[j]
          /\ pending'["GetProviders"][j] = pending["GetProviders"][j]
    BY <1>1, <2>1 DEF TypeOK, Kinds
  <2>4. swarm'[i].found = {}
    BY <1>1, <2>1 DEF TypeOK
  <2>5. QED
    BY <2>2, <2>3, <2>4 DEF CollectsAll
<1>8. ASSUME NEW i \in Ids, NEW ps \in SUBSET Peers, FoundProviders(i, ps)
      PROVE  CollectsAll'
  <2>1. /\ swarm'[i].found = swarm[i].found \cup ps
        /\ swarm'[i].kind = swarm[i].kind
        /\ \A j \in Ids : j # i => swarm'[j] = swarm[j]
        /\ UNCHANGED pending
    BY <1>1, <1>8 DEF FoundProviders, TypeOK
  <2>2. \A j \in Ids : j # i => collected'[j] = collected[j]
    BY <1>1, <1>8 DEF FoundProviders, TypeOK
  <2>3. pending["GetProviders"][i] # Nobody => collected'[i] = collected[i] \cup ps
    BY <1>1, <1>8 DEF FoundProviders, TypeOK
  <2>4. QED
    BY <2>1, <2>2, <2>3 DEF CollectsAll
<1>9. ASSUME NEW i \in Ids, QueryEnds(i) PROVE CollectsAll'
  <2>1. CASE GetRecordEnds(i)
    BY <1>3, <1>4, <2>1 DEF GetRecordEnds, Kinds
  <2>2. ASSUME NEW k \in Kinds, NEW ok \in BOOLEAN, StoreQueryEnds(k, i, ok)
        PROVE  CollectsAll'
    BY <1>3, <1>4, <2>2 DEF StoreQueryEnds
  <2>3. ASSUME NEW ps \in SUBSET Peers, LastProviders(i, ps) PROVE CollectsAll'
    BY <1>6, <2>3 DEF LastProviders
  <2>4. CASE GetProvidersFails(i)
    BY <1>6, <2>4 DEF GetProvidersFails
  <2>5. CASE RelayReturns(i)
    BY <1>3, <2>5 DEF RelayReturns
  <2>6. ASSUME NEW r, RequestReturns(i, r) PROVE CollectsAll'
    BY <1>3, <1>4, <2>6 DEF RequestReturns, Kinds
  <2>7. QED
    BY <1>9, <2>1, <2>2, <2>3, <2>4, <2>5, <2>6
       DEF QueryEnds, Responded, OutboundFailure
<1>10. ASSUME NEW i \in Ids, QueryProgresses(i) PROVE CollectsAll'
  <2>1. CASE NewListenAddr(i)
    BY <1>5, <2>1 DEF NewListenAddr, Kinds
  <2>2. CASE ListenerClosed(i)
    BY <1>1, <2>2 DEF ListenerClosed, CollectsAll, TypeOK
  <2>3. ASSUME NEW b \in RecordBodies, FoundRecord(i, b) PROVE CollectsAll'
    BY <1>5, <2>3 DEF FoundRecord, Kinds
  <2>4. QED
    BY <1>8, <1>10, <2>1, <2>2, <2>3 DEF QueryProgresses
<1>11. ASSUME NEW b \in Inbound, RelayOnion(b) PROVE CollectsAll'
  BY <1>1, <1>11 DEF RelayOnion, CollectsAll, TypeOK
<1>12. CASE StopLoop
  BY <1>12 DEF StopLoop, DropLoop, CollectsAll, Free
<1>13. ASSUME CommandStep PROVE CollectsAll'
  <2>1. ASSUME NEW k \in Kinds, RefuseQuery(k) PROVE CollectsAll'
    BY <1>2, <2>1 DEF RefuseQuery
  <2>2. ASSUME NEW ps \in SUBSET Peers, AnswerKnownPeers(ps) PROVE CollectsAll'
    BY <1>2, <2>2 DEF AnswerKnownPeers
  <2>3. CASE ProcessDial
    BY <1>2, <2>3 DEF ProcessDial
  <2>4. QED
    BY <1>7, <1>12, <1>13, <2>1, <2>2, <2>3 DEF CommandStep
<1>14. ASSUME NEW c \in Calls,
              (\E o \in Ops : Invoke(c, o)) \/ Abandon(c) \/ CallerStep(c)
       PROVE  CollectsAll'
  BY <1>2, <1>14 DEF Invoke, Abandon, CallerStep, ContinueCall, Return
<1>15. CASE Dial \/ DropHandle \/ ChaffStep
  BY <1>2, <1>15 DEF Dial, DropHandle, ChaffStep, ChaffAsk, ChaffSend
<1>16. ASSUME NEW b \in Inbound, AnswerInbound(b) PROVE CollectsAll'
  BY <1>2, <1>16 DEF AnswerInbound
<1>17. CASE UNCHANGED vars
  BY <1>2, <1>17 DEF vars
<1>18. QED
  BY <1>9, <1>10, <1>11, <1>13, <1>14, <1>15, <1>16, <1>17 DEF Next

(* A reply that reaches a call whose sender is parked under a provider     *)
(* query was sent by an event of that query.                               *)
LEMMA ReplyIsOfQuery ==
  ASSUME IInv, CollectsAll, [Next]_vars,
         NEW c \in Calls, NEW i \in Ids,
         swarm[i].kind = "GetProviders", pending["GetProviders"][i] = c,
         NEW r \in oneshot'[c] \ oneshot[c], r.ok
  PROVE  swarm[i].found \subseteq r.peers
<1> USE DEF callVars, loopVars
<1>1. TypeOK
  BY DEF IInv
<1>2. \A k \in Kinds, j \in Ids : pending[k][j] = c => k = "GetProviders" /\ j = i
  BY DEF IInv, PendingOwn, Kinds
<1>3. c # Nobody
  BY ConstantsAssumption
<1>4. ASSUME NEW o, NEW s, Deliver(o, s) PROVE o = c /\ r = s
  BY <1>1, <1>4 DEF Deliver, TypeOK
<1>5. ASSUME NEW j \in Ids, NEW k \in Kinds, NEW s, RemoveAndReply(k, j, s)
      PROVE  k = "GetProviders" /\ j = i /\ r = s
  BY <1>2, <1>4, <1>5 DEF RemoveAndReply
<1>6. ASSUME NEW k \in CommandKinds, NEW s, TakeCommand(k),
             Deliver(Head(queue).from, s)
      PROVE  FALSE
  <2>1. Head(queue).from = c
    BY <1>4, <1>6
  <2>2. Queued(c, k)
    BY <1>1, <1>6, <2>1, TakeQueue DEF IInv
  <2>3. QED
    BY <2>2 DEF IInv, QueuedOwn, Kinds
<1>7. ~UNCHANGED oneshot
  OBVIOUS
<1>8. ASSUME CommandStep PROVE FALSE
  <2>1. ASSUME NEW k \in Kinds, RefuseQuery(k) PROVE FALSE
    BY <1>6, <2>1 DEF RefuseQuery, CommandKinds
  <2>2. ASSUME NEW ps \in SUBSET Peers, AnswerKnownPeers(ps) PROVE FALSE
    BY <1>6, <2>2 DEF AnswerKnownPeers, CommandKinds
  <2>3. QED
    BY <1>7, <1>8, <2>1, <2>2
       DEF CommandStep, StartQuery, ProcessDial, StopLoop, DropLoop
<1>9. ASSUME NEW j \in Ids, QueryEnds(j) PROVE swarm[i].found \subseteq r.peers
  <2>1. ASSUME NEW ps \in SUBSET Peers, LastProviders(j, ps)
        PROVE  swarm[i].found \subseteq r.peers
    <3>1. j = i /\ r = Answer(i, collected[i] \cup ps, "none")
      BY <1>5, <2>1 DEF LastProviders, Kinds
    <3>2. r.peers = collected[i] \cup ps
      BY <3>1 DEF Answer
    <3>3. QED
      BY <1>3, <3>2 DEF CollectsAll
  <2>2. CASE GetProvidersFails(j)
    BY <1>5, <2>2 DEF GetProvidersFails, Failure, Error, Kinds
  <2>3. ASSUME NEW k \in Kinds, NEW ok \in BOOLEAN, StoreQueryEnds(k, j, ok)
        PROVE  FALSE
    BY <1>5, <2>3 DEF StoreQueryEnds
  <2>4. ASSUME NEW s, RequestReturns(j, s) PROVE FALSE
    BY <1>5, <2>4 DEF RequestReturns, Kinds
  <2>5. QED
    BY <1>5, <1>7, <1>9, <2>1, <2>2, <2>3, <2>4
       DEF QueryEnds, GetRecordEnds, RelayReturns, Responded, OutboundFailure, Kinds
<1>10. ASSUME NEW j \in Ids, QueryProgresses(j) PROVE FALSE
  <2>1. ASSUME NEW b \in RecordBodies, FoundRecord(j, b) PROVE FALSE
    BY <1>5, <2>1 DEF FoundRecord, Kinds
  <2>2. CASE NewListenAddr(j)
    BY <1>5, <2>2 DEF NewListenAddr, Kinds
  <2>3. QED
    BY <1>7, <1>10, <2>1, <2>2 DEF QueryProgresses, ListenerClosed, FoundProviders
<1>11. ASSUME NEW d \in Calls,
              (\E o \in Ops : Invoke(d, o)) \/ Abandon(d) \/ CallerStep(d)
       PROVE  FALSE
  <2>1. oneshot' = [oneshot EXCEPT ![d] = {}] \/ UNCHANGED oneshot
    BY <1>11 DEF Invoke, Abandon, CallerStep, ContinueCall, Return
  <2>2. QED
    BY <1>1, <2>1 DEF TypeOK
<1>12. QED
  BY <1>7, <1>8, <1>9, <1>10, <1>11
     DEF Next, Dial, DropHandle, ChaffStep, ChaffAsk, ChaffSend, AnswerInbound,
         RelayOnion, vars

(* get_providers misses no provider its query reported: the set that goes  *)
(* with the answer is the one kept beside its own sender, whatever other   *)
(* queries, replies and abandoned calls came between the events.           *)
THEOREM ProvidersAreComplete == Spec => ProvidersComplete
<1>1. Init => CollectsAll
  BY DEF Init, CollectsAll, Free
<1>2. IInv /\ CollectsAll /\ [Next]_vars => CollectsAll'
  BY CollectsNext
<1>3. ASSUME IInv, CollectsAll, [Next]_vars
      PROVE  [\A c \in Calls, i \in Ids :
                swarm[i].kind = "GetProviders" /\ pending["GetProviders"][i] = c =>
                  \A r \in oneshot'[c] \ oneshot[c] :
                    r.ok => swarm[i].found \subseteq r.peers]_vars
  BY <1>3, ReplyIsOfQuery
<1>4. QED
  BY InductiveInvariant, <1>1, <1>2, <1>3, PTL DEF Spec, ProvidersComplete
=============================================================================
