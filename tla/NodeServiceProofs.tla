-------------------------- MODULE NodeServiceProofs --------------------------
(***************************************************************************)
(* NodeLoop implements CallService: every step of the node is a step of    *)
(* the service, seen through Phase, Answered and Succeeded, or leaves them *)
(* alone.                                                                  *)
(***************************************************************************)
EXTENDS NodeLoopProofs

(* A stranded call still waits for its first and only answer.              *)
LEMMA StrandedUnanswered ==
  ASSUME IInv, NEW c \in Calls, Stranded(c)
  PROVE  /\ oneshot[c] = {}
         /\ at[c] \in {"waiting", "abandoned"}
         /\ leg[c] = 1
         /\ c \notin Answered
<1>1. PICK i \in Ids : pending["ListenOn"][i] = c
  BY DEF Stranded
<1>2. "ListenOn" = Command(op[c], leg[c]) /\ oneshot[c] = {}
      /\ at[c] \in {"waiting", "abandoned"}
  BY <1>1 DEF IInv, PendingOwn, Kinds
<1>3. leg[c] # 2
  <2>1. leg[c] = 2 => op[c] \in {"start_providing", "get_providers"}
    BY DEF IInv, LegsOnlyOfTwo
  <2>2. Command("start_providing", 2) # "ListenOn"
    BY DEF Command
  <2>3. Command("get_providers", 2) # "ListenOn"
    BY DEF Command
  <2>4. QED
    BY <1>2, <2>1, <2>2, <2>3
<1>4. leg[c] \in 1..2
  BY DEF IInv, TypeOK
<1>5. QED
  BY <1>2, <1>3, <1>4 DEF Answered

(* A step that changes none of what the service sees.                      *)
LEMMA Invisible ==
  ASSUME \A c \in Calls : /\ at'[c] = at[c]
                          /\ c \in Answered' <=> c \in Answered
                          /\ at[c] = "waiting" => (Stranded(c)' <=> Stranded(c)),
         UNCHANGED <<result, handle>>
  PROVE  UNCHANGED Service!vars
<1>1. UNCHANGED Phase
  BY DEF Phase
<1>2. UNCHANGED Answered
  BY DEF Answered
<1>3. UNCHANGED Succeeded
  BY DEF Succeeded
<1>4. QED
  BY <1>1, <1>2, <1>3 DEF Service!vars

(* A reply is an answer of the service if it is a success; an error is not *)
(* visible until the call returns.                                         *)
LEMMA DeliverVisible ==
  ASSUME IInv, NEW o, NEW r, Deliver(o, r),
         o \in Calls => ~Stranded(o),
         \A c \in Calls : Stranded(c)' <=> Stranded(c),
         UNCHANGED <<callVars, handle>>
  PROVE  [Service!Next]_(Service!vars)
<1>1. TypeOK
  BY DEF IInv
<1>2. UNCHANGED <<Phase, Succeeded>>
  BY DEF Phase, Succeeded, callVars
<1>3. CASE o \in Calls /\ at[o] = "waiting"
  <2>1. \A c \in Calls : oneshot'[c] = IF c = o THEN oneshot[c] \cup {r} ELSE oneshot[c]
    BY <1>1, <1>3 DEF Deliver, TypeOK
  <2>2. CASE r.ok
    <3>1. Answered' = Answered \cup {o}
      BY <1>3, <2>1, <2>2 DEF Answered, callVars
    <3>2. Phase[o] = "waiting"
      BY <1>3 DEF Phase
    <3>3. Service!Answer(o)
      BY <1>2, <3>1, <3>2 DEF Service!Answer
    <3>4. QED
      BY <1>3, <3>3 DEF Service!Next
  <2>3. CASE ~r.ok
    <3>1. Answered' = Answered
      BY <1>3, <2>1, <2>3 DEF Answered, callVars
    <3>2. QED
      BY <1>2, <3>1 DEF Service!vars
  <2>4. QED
    BY <2>2, <2>3
<1>4. CASE ~(o \in Calls /\ at[o] = "waiting")
  <2>1. oneshot' = oneshot
    BY <1>4 DEF Deliver
  <2>2. Answered' = Answered
    BY <2>1 DEF Answered, callVars
  <2>3. QED
    BY <1>2, <2>2 DEF Service!vars
<1>5. QED
  BY <1>3, <1>4

(* An event that answers a query: if it is a listener's, it is still open. *)
LEMMA QueryVisible ==
  ASSUME IInv, NEW k \in Kinds, NEW i \in Ids, NEW r,
         Runs(i, k), RemoveAndReply(k, i, r), swarm' = swarm \/ Ended(i),
         UNCHANGED <<callVars, handle>>
  PROVE  [Service!Next]_(Service!vars)
<1> DEFINE o == pending[k][i]
<1>1. TypeOK /\ "ListenOn" \in Kinds
  BY DEF IInv, Kinds
<1>2. swarm[i].kind # "closed"
  BY DEF Runs, Kinds
<1>3. \A j \in Ids : swarm'[j].kind = "closed" <=> swarm[j].kind = "closed"
  BY <1>1, <1>2 DEF Ended, Free, TypeOK
<1>4. \A j \in Ids : j # i => pending'["ListenOn"][j] = pending["ListenOn"][j]
  BY <1>1 DEF RemoveAndReply, TypeOK
<1>5. \A c \in Calls : Stranded(c)' <=> Stranded(c)
  BY <1>2, <1>3, <1>4 DEF Stranded
<1>6. o \in Calls => ~Stranded(o)
  BY <1>1, <1>2 DEF IInv, PendingOwn, Stranded
<1>7. Deliver(o, r)
  BY DEF RemoveAndReply
<1>8. QED
  BY <1>5, <1>6, <1>7, DeliverVisible

LEMMA CommandVisible ==
  ASSUME IInv, NEW k \in CommandKinds, TakeCommand(k), NEW r,
         Deliver(Head(queue).from, r),
         UNCHANGED <<callVars, handle, loop, loopVars>>
  PROVE  [Service!Next]_(Service!vars)
<1> DEFINE f == Head(queue).from
<1>1. f \in Calls => Queued(f, k)
  BY TakeQueue DEF IInv
<1>2. f \in Calls => ~Stranded(f)
  BY <1>1 DEF IInv, QueuedOwn, Stranded, Kinds
<1>3. \A c \in Calls : Stranded(c)' <=> Stranded(c)
  BY DEF Stranded, loopVars
<1>4. QED
  BY <1>2, <1>3, DeliverVisible

(***************************************************************************)
(* The steps of the callers.                                               *)
(***************************************************************************)
LEMMA InvokeVisible ==
  ASSUME IInv, NEW c \in Calls, NEW o \in Ops, Invoke(c, o)
  PROVE  Service!Invoke(c)
<1>1. TypeOK /\ at[c] = "idle" /\ handle
  BY DEF IInv, Invoke
<1>2. \A d \in Calls : at'[d] = IF d = c THEN "waiting" ELSE at[d]
  BY <1>1 DEF Invoke, TypeOK
<1>3. ~Stranded(c) /\ \A d \in Calls : Stranded(d)' <=> Stranded(d)
  BY <1>1, StrandedUnanswered DEF Stranded, Invoke, loopVars
<1>4. leg[c] # 2 /\ oneshot[c] = {}
  BY <1>1 DEF IInv, LegsOnlyOfTwo, RepliedOnce
<1>5. Phase[c] = "idle" /\ Phase' = [Phase EXCEPT ![c] = "waiting"]
  BY <1>1, <1>2, <1>3 DEF Phase
<1>6. Answered' = Answered
  BY <1>1, <1>2, <1>4 DEF Answered, Invoke
<1>7. Succeeded' = Succeeded
  BY <1>1, <1>2 DEF Succeeded, Invoke
<1>8. QED
  BY <1>1, <1>5, <1>6, <1>7 DEF Service!Invoke, Invoke

LEMMA AbandonVisible ==
  ASSUME IInv, NEW c \in Calls, Abandon(c)
  PROVE  Service!Cancel(c)
<1>1. TypeOK /\ at[c] = "waiting"
  BY DEF IInv, Abandon
<1>2. \A d \in Calls : at'[d] = IF d = c THEN "abandoned" ELSE at[d]
  BY <1>1 DEF Abandon, TypeOK
<1>3. \A d \in Calls : Stranded(d)' <=> Stranded(d)
  BY DEF Stranded, Abandon, loopVars
<1>4. \A d \in Calls : oneshot'[d] = IF d = c THEN {} ELSE oneshot[d]
  BY <1>1 DEF Abandon, TypeOK
<1>5. Phase[c] \in {"waiting", "stranded"} /\ Phase' = [Phase EXCEPT ![c] = "abandoned"]
  BY <1>1, <1>2, <1>3 DEF Phase
<1>6. Answered' = Answered \ {c}
  BY <1>1, <1>2, <1>4 DEF Answered, Abandon
<1>7. Succeeded' = Succeeded
  BY <1>1, <1>2 DEF Succeeded, Abandon
<1>8. QED
  BY <1>5, <1>6, <1>7 DEF Service!Cancel, Abandon

(* The second command of a call goes out only after its first was answered *)
(* with success, so the call was answered and stays so.                    *)
LEMMA ContinueCallInvisible ==
  ASSUME IInv, NEW c \in Calls, ContinueCall(c)
  PROVE  UNCHANGED Service!vars
<1>1. TypeOK /\ at[c] = "waiting" /\ \E r \in oneshot[c] : r.ok
  BY DEF IInv, ContinueCall
<1>2. /\ \A d \in Calls : oneshot'[d] = IF d = c THEN {} ELSE oneshot[d]
      /\ \A d \in Calls : leg'[d] = IF d = c THEN 2 ELSE leg[d]
  BY <1>1 DEF ContinueCall, TypeOK
<1>3. UNCHANGED <<at, result, handle, pending, swarm>>
  BY DEF ContinueCall, loopVars
<1>4. \A d \in Calls : d \in Answered' <=> d \in Answered
  BY <1>1, <1>2, <1>3 DEF Answered
<1>5. \A d \in Calls : Stranded(d)' <=> Stranded(d)
  BY <1>3 DEF Stranded
<1>6. QED
  BY <1>3, <1>4, <1>5, Invisible

LEMMA ReturnVisible ==
  ASSUME IInv, NEW c \in Calls, Return(c)
  PROVE  Service!Return(c)
<1>1. TypeOK /\ at[c] = "waiting"
  BY DEF IInv, Return
<1>2. PICK r \in oneshot[c] : result' = [result EXCEPT ![c] = Outcome(c, r)]
  BY DEF Return
<1>3. \A d \in Calls : /\ at'[d] = IF d = c THEN "returned" ELSE at[d]
                       /\ oneshot'[d] = IF d = c THEN {} ELSE oneshot[d]
                       /\ result'[d] = IF d = c THEN Outcome(c, r) ELSE result[d]
  BY <1>1, <1>2 DEF Return, TypeOK
<1>4. ~Stranded(c) /\ \A d \in Calls : Stranded(d)' <=> Stranded(d)
  BY <1>2, StrandedUnanswered DEF Stranded, Return, loopVars
<1>5. Phase[c] = "waiting" /\ Phase' = [Phase EXCEPT ![c] = "returned"]
  BY <1>1, <1>3, <1>4 DEF Phase
<1>6. Answered' = Answered \ {c}
  BY <1>1, <1>3 DEF Answered, Return
<1>7. Outcome(c, r).ok => c \in Answered
  <2>1. Outcome(c, r).ok => r.ok \/ leg[c] = 2
    BY DEF Outcome
  <2>2. QED
    BY <1>1, <2>1 DEF Answered
<1>8. \/ c \in Answered /\ Succeeded' = Succeeded \cup {c}
      \/ Succeeded' = Succeeded
  <2>1. c \notin Succeeded
    BY <1>1 DEF Succeeded
  <2>2. \A d \in Calls : d # c => (d \in Succeeded' <=> d \in Succeeded)
    BY <1>3 DEF Succeeded
  <2>3. c \in Succeeded' <=> Outcome(c, r).ok
    BY <1>3 DEF Succeeded
  <2>4. Succeeded \subseteq Calls /\ Succeeded' \subseteq Calls
    BY DEF Succeeded
  <2>5. QED
    BY <1>7, <2>1, <2>2, <2>3, <2>4
<1>9. QED
  BY <1>5, <1>6, <1>8 DEF Service!Return, Return

LEMMA DropHandleVisible ==
  ASSUME IInv, DropHandle
  PROVE  Service!Close
<1>1. \A c \in Calls : at[c] \in {"idle", "returned", "abandoned"}
  BY DEF IInv, TypeOK, DropHandle
<1>2. \A c \in Calls : Phase[c] \notin {"waiting", "stranded"}
  BY <1>1 DEF Phase
<1>3. UNCHANGED <<Phase, Answered, Succeeded>>
  BY DEF DropHandle, Phase, Answered, Succeeded, Stranded, callVars, loopVars
<1>4. QED
  BY <1>2, <1>3 DEF Service!Close, DropHandle

(***************************************************************************)
(* The steps of the loop that answer no call.                              *)
(***************************************************************************)
(* A query starts under an id that no map holds.                           *)
LEMMA StartQueryInvisible ==
  ASSUME IInv, NEW k \in Kinds, StartQuery(k)
  PROVE  UNCHANGED Service!vars
<1>1. TypeOK /\ k # "closed"
  BY DEF IInv, Kinds
<1>2. PICK i \in Ids :
        /\ swarm[i].kind = "free"
        /\ swarm' = [swarm EXCEPT ![i] =
                      [kind |-> k, from |-> Head(queue).from, found |-> {}]]
        /\ pending' = [pending EXCEPT ![k][i] = Head(queue).from]
  BY DEF StartQuery
<1>3. /\ swarm'[i].kind # "closed" /\ swarm[i].kind # "closed"
      /\ \A j \in Ids : j # i => /\ swarm'[j] = swarm[j]
                                /\ pending'["ListenOn"][j] = pending["ListenOn"][j]
  BY <1>1, <1>2 DEF TypeOK
<1>4. \A c \in Calls : Stranded(c)' <=> Stranded(c)
  BY <1>3 DEF Stranded
<1>5. UNCHANGED <<callVars, oneshot, handle>>
  BY DEF StartQuery
<1>6. QED
  BY <1>4, <1>5, Invisible DEF Answered, callVars

(* A listener that closes strands the call that waits for its address.     *)
LEMMA ListenerClosedVisible ==
  ASSUME IInv, NEW i \in Ids, ListenerClosed(i)
  PROVE  [Service!Next]_(Service!vars)
<1> DEFINE c == pending["ListenOn"][i]
<1>1. TypeOK /\ "ListenOn" \in Kinds /\ swarm[i].kind = "ListenOn"
  BY DEF IInv, ListenerClosed, Runs, Kinds
<1>2. /\ UNCHANGED <<callVars, oneshot, handle, pending>>
      /\ \A j \in Ids : swarm'[j].kind = IF j = i THEN "closed" ELSE swarm[j].kind
  BY <1>1 DEF ListenerClosed, TypeOK
<1>3. UNCHANGED <<Answered, Succeeded>>
  BY <1>2 DEF Answered, Succeeded, callVars
<1>4. \A d \in Calls : Stranded(d)' <=> Stranded(d) \/ d = c
  BY <1>2 DEF Stranded
<1>5. CASE c \in Calls /\ at[c] = "waiting"
  <2>1. ~Stranded(c)
    BY <1>1, <1>5 DEF IInv, PendingOwn, Stranded
  <2>2. Phase[c] = "waiting"
    BY <1>5, <2>1 DEF Phase
  <2>3. Phase' = [Phase EXCEPT ![c] = "stranded"]
    <3>1. \A d \in Calls : /\ at'[d] = at[d]
                           /\ Stranded(d)' <=> Stranded(d) \/ d = c
      BY <1>2, <1>4 DEF callVars
    <3>2. Phase' = [d \in Calls |-> IF at[d] = "waiting" /\ (Stranded(d) \/ d = c)
                                   THEN "stranded" ELSE at[d]]
      BY <3>1 DEF Phase
    <3>3. QED
      BY <1>5, <3>2 DEF Phase
  <2>4. c \notin Answered
    <3>1. /\ oneshot[c] = {} /\ "ListenOn" = Command(op[c], leg[c])
      BY <1>1, <1>5 DEF IInv, PendingOwn
    <3>2. leg[c] = 2 => op[c] \in {"start_providing", "get_providers"}
      BY <1>5 DEF IInv, LegsOnlyOfTwo
    <3>3. Command("start_providing", 2) # "ListenOn"
      BY DEF Command
    <3>4. Command("get_providers", 2) # "ListenOn"
      BY DEF Command
    <3>5. QED
      BY <3>1, <3>2, <3>3, <3>4 DEF Answered
  <2>5. Service!Strand(c)
    BY <1>2, <1>3, <2>2, <2>3, <2>4 DEF Service!Strand
  <2>6. QED
    BY <1>5, <2>5 DEF Service!Next
<1>6. CASE ~(c \in Calls /\ at[c] = "waiting")
  <2>1. UNCHANGED Phase
    BY <1>2, <1>4, <1>6 DEF Phase, callVars
  <2>2. QED
    BY <1>2, <1>3, <2>1 DEF Service!vars
<1>7. QED
  BY <1>5, <1>6

LEMMA FoundProvidersInvisible ==
  ASSUME IInv, NEW i \in Ids, NEW ps \in SUBSET Peers, FoundProviders(i, ps)
  PROVE  UNCHANGED Service!vars
<1>1. \A j \in Ids : swarm'[j].kind = swarm[j].kind
  BY DEF IInv, FoundProviders, TypeOK
<1>2. UNCHANGED <<callVars, oneshot, handle, pending>>
  BY DEF FoundProviders
<1>3. QED
  BY <1>1, <1>2, Invisible DEF Stranded, Answered, callVars

LEMMA RelayInvisible ==
  ASSUME IInv,
         \/ \E i \in Ids : RelayReturns(i)
         \/ \E b \in Inbound : AnswerInbound(b) \/ RelayOnion(b)
  PROVE  UNCHANGED Service!vars
<1>1. UNCHANGED <<callVars, oneshot, handle, pending>>
  BY DEF RelayReturns, AnswerInbound, RelayOnion
<1>2. \A j \in Ids : swarm'[j].kind = "closed" <=> swarm[j].kind = "closed"
  BY DEF IInv, TypeOK, RelayReturns, AnswerInbound, RelayOnion, Runs, Ended, Free
<1>3. QED
  BY <1>1, <1>2, Invisible DEF Stranded, Answered, callVars

(* The loop drops its maps only when no call waits.                        *)
LEMMA StopLoopInvisible ==
  ASSUME IInv, StopLoop
  PROVE  UNCHANGED Service!vars
<1>1. \A c \in Calls : at[c] # "waiting"
  BY DEF IInv, Serving, StopLoop
<1>2. QED
  BY <1>1, Invisible DEF StopLoop, DropLoop, Answered, callVars

-----------------------------------------------------------------------------
LEMMA NextVisible ==
  IInv /\ [Next]_vars => [Service!Next]_(Service!vars)
<1> SUFFICES ASSUME IInv, [Next]_vars PROVE [Service!Next]_(Service!vars)
  OBVIOUS
<1>1. ASSUME NEW c \in Calls,
             (\E o \in Ops : Invoke(c, o)) \/ Abandon(c) \/ CallerStep(c)
      PROVE  [Service!Next]_(Service!vars)
  BY <1>1, InvokeVisible, AbandonVisible, ContinueCallInvisible, ReturnVisible
     DEF CallerStep, Service!Next
<1>2. CASE Dial \/ ChaffStep
  <2>1. UNCHANGED <<at, leg, oneshot, result, handle, pending, swarm>>
    BY <1>2 DEF Dial, ChaffStep, ChaffAsk, ChaffSend, callVars, loopVars
  <2>2. QED
    BY <2>1, Invisible DEF Stranded, Answered
<1>3. CASE DropHandle
  BY <1>3, DropHandleVisible DEF Service!Next
<1>4. CASE CommandStep
  <2>1. ASSUME NEW k \in Kinds, StartQuery(k) PROVE [Service!Next]_(Service!vars)
    BY <2>1, StartQueryInvisible
  <2>2. ASSUME NEW k \in Kinds, RefuseQuery(k) PROVE [Service!Next]_(Service!vars)
    BY <2>2, CommandVisible DEF RefuseQuery, CommandKinds
  <2>3. ASSUME NEW ps \in SUBSET Peers, AnswerKnownPeers(ps)
        PROVE  [Service!Next]_(Service!vars)
    BY <2>3, CommandVisible DEF AnswerKnownPeers, CommandKinds
  <2>4. CASE ProcessDial
    <3>1. UNCHANGED <<at, leg, oneshot, result, handle, pending, swarm>>
      BY <2>4 DEF ProcessDial, callVars, loopVars
    <3>2. QED
      BY <3>1, Invisible DEF Stranded, Answered
  <2>5. QED
    BY <1>4, <2>1, <2>2, <2>3, <2>4, StopLoopInvisible DEF CommandStep
<1>5. ASSUME NEW i \in Ids, QueryEnds(i) PROVE [Service!Next]_(Service!vars)
  <2>1. CASE GetRecordEnds(i)
    BY <2>1, QueryVisible DEF GetRecordEnds, Kinds
  <2>2. ASSUME NEW k \in Kinds, NEW ok \in BOOLEAN, StoreQueryEnds(k, i, ok)
        PROVE  [Service!Next]_(Service!vars)
    BY <2>2, QueryVisible DEF StoreQueryEnds
  <2>3. ASSUME NEW ps \in SUBSET Peers, LastProviders(i, ps)
        PROVE  [Service!Next]_(Service!vars)
    BY <2>3, QueryVisible DEF LastProviders, Kinds
  <2>4. CASE GetProvidersFails(i)
    BY <2>4, QueryVisible DEF GetProvidersFails, Kinds
  <2>5. ASSUME NEW r, RequestReturns(i, r) PROVE [Service!Next]_(Service!vars)
    BY <2>5, QueryVisible DEF RequestReturns, Kinds
  <2>6. QED
    BY <1>5, <2>1, <2>2, <2>3, <2>4, <2>5, RelayInvisible
       DEF QueryEnds, Responded, OutboundFailure
<1>6. ASSUME NEW i \in Ids, QueryProgresses(i) PROVE [Service!Next]_(Service!vars)
  <2>1. CASE NewListenAddr(i)
    BY <2>1, QueryVisible DEF NewListenAddr, Kinds
  <2>2. ASSUME NEW b \in RecordBodies, FoundRecord(i, b)
        PROVE  [Service!Next]_(Service!vars)
    BY <2>2, QueryVisible DEF FoundRecord, Kinds
  <2>3. QED
    BY <1>6, <2>1, <2>2, ListenerClosedVisible, FoundProvidersInvisible
       DEF QueryProgresses
<1>7. CASE \E b \in Inbound : AnswerInbound(b) \/ RelayOnion(b)
  BY <1>7, RelayInvisible
<1>8. CASE UNCHANGED vars
  BY <1>8 DEF vars, Service!vars, Phase, Answered, Succeeded, Stranded
<1>9. QED
  BY <1>1, <1>2, <1>3, <1>4, <1>5, <1>6, <1>7, <1>8 DEF Next

LEMMA InitVisible == Init => Service!Init
<1> SUFFICES ASSUME Init PROVE Service!Init
  OBVIOUS
<1>1. \A c \in Calls : at[c] = "idle"
  BY DEF Init
<1>2. Phase = [c \in Calls |-> "idle"]
  BY <1>1 DEF Phase
<1>3. Answered = {} /\ Succeeded = {}
  BY <1>1 DEF Answered, Succeeded
<1>4. QED
  BY <1>2, <1>3 DEF Service!Init, Init

(* The node implements the service its handle promises: a call that is     *)
(* over stays over whatever reply comes late, success is only given for an *)
(* answer, and the handle goes only when no call is open.                  *)
THEOREM NodeImplementsService == Spec => ImplementsService
<1>1. Init => Service!Init
  BY InitVisible
<1>2. IInv /\ [Next]_vars => [Service!Next]_(Service!vars)
  BY NextVisible
<1>3. QED
  BY InductiveInvariant, <1>1, <1>2, PTL DEF Spec, ImplementsService, Service!Spec
=============================================================================
