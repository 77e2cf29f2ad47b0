------------------------------ MODULE NodeLoop ------------------------------
(***************************************************************************)
(* The network node of alternet-core/src/network.rs.                       *)
(*                                                                         *)
(* Callers use an async NodeHandle.  Every method makes a oneshot channel, *)
(* puts a NodeCommand with its sending half on an unbounded queue and      *)
(* awaits the receiving half.  One task, run_swarm_loop, takes commands    *)
(* and swarm events in whatever order select! picks them; a command that   *)
(* starts a query parks the sender in one of six pending maps, and the     *)
(* event that ends the query takes it out and answers.  A seventh map      *)
(* parks the response channels of onion requests the node relays.  A       *)
(* second task, run_chaff_loop, uses a clone of the command queue.         *)
(*                                                                         *)
(* Kademlia, request-response and the transport are external: they may     *)
(* produce any event for any query that runs, each query ends once.        *)
(***************************************************************************)
EXTENDS Naturals, Sequences, FiniteSets

CONSTANTS
  Calls,         \* invocations of NodeHandle methods, each with its oneshots
  Ops,           \* the methods that the instance calls
  Ids,           \* QueryId, OutboundRequestId and ListenerId: three types that
                 \*   never mix, so one set of tokens stands for all of them
  Inbound,       \* requests of other peers, each with its ResponseChannel
  Peers,         \* peers a provider query or the connection table can name
  ChaffEnabled,  \* the values privacy.chaff_enabled && level.at_least_padded()
                 \*   can have in the instance
  Chaff,         \* the oneshot on which the chaff task asks for known peers
  NoReceiver,    \* a oneshot nobody listens to, or a command without one
  Nobody         \* "no entry under this key"

AllOps == {"listen_on", "put_dht", "get_dht", "start_providing",
           "get_providers", "request_block", "known_peers"}

ASSUME ConstantsAssumption ==
  /\ Ops \subseteq AllOps
  /\ ChaffEnabled \subseteq BOOLEAN
  /\ Chaff # NoReceiver
  /\ {Chaff, NoReceiver, Nobody} \cap Calls = {}
  /\ Nobody \notin Inbound \cup {Chaff, NoReceiver}

(***************************************************************************)
(* The commands that start a query, one pending map for each.              *)
(***************************************************************************)
Kinds == {"ListenOn", "PutRecord", "GetRecord", "StartProviding",
          "GetProviders", "SendBlockRequest"}

CommandKinds == Kinds \cup {"DialAddr", "KnownPeers"}

Owners == Calls \cup {Chaff, NoReceiver}

(***************************************************************************)
(* What a reply carries, as far as a caller tells replies apart: for a     *)
(* record, whether it decodes and verifies as a provider announcement; for *)
(* a response, whether it is a Block whose data hash to the CID it names   *)
(* and is within MAX_BLOCK_SIZE ("block" if that is the CID asked for,     *)
(* "foreign" if not), a Block that fails either check, or anything else.   *)
(***************************************************************************)
RecordBodies   == {"signed", "forged"}
ResponseBodies == {"block", "foreign", "unverified", "dontHave"}
Bodies         == RecordBodies \cup ResponseBodies \cup {"none"}

Reply == [ok: BOOLEAN, of: Owners \cup {Nobody}, kind: CommandKinds,
          peers: SUBSET Peers, body: Bodies]

Command(o, l) ==
  CASE o = "listen_on"                  -> "ListenOn"
    [] o = "put_dht"                    -> "PutRecord"
    [] o = "get_dht"                    -> "GetRecord"
    [] o = "start_providing" /\ l = 1   -> "StartProviding"
    [] o = "start_providing" /\ l = 2   -> "PutRecord"
    [] o = "get_providers"   /\ l = 1   -> "GetProviders"
    [] o = "get_providers"   /\ l = 2   -> "GetRecord"
    [] o = "request_block"              -> "SendBlockRequest"
    [] OTHER                            -> "KnownPeers"

VARIABLES
  at,         \* where each call is: "idle", "waiting", "returned", "abandoned"
  op,         \* the method each call runs
  leg,        \* which of the method's commands the call awaits
  saved,      \* get_providers: the providers found by its first command
  oneshot,    \* the replies sent to each call that it has not yet taken
  result,     \* what each returned call gave its caller
  handle,     \* TRUE until the NodeHandle is dropped
  chaff,      \* the chaff task: "off", "sleeping", "asking", "told"
  queue,      \* the mpsc channel of commands
  loop,       \* run_swarm_loop: "running" or "stopped"
  pending,    \* the six pending maps
  collected,  \* the second half of pending_get_providers
  relay,      \* pending_relay
  inbound,    \* each inbound request: "unseen", "open", "answered", "lost"
  swarm       \* external: what the swarm runs under each id

callVars  == <<at, op, leg, saved, result>>
loopVars  == <<pending, collected, relay, inbound, swarm>>
vars == <<at, op, leg, saved, oneshot, result, handle, chaff, queue, loop,
          pending, collected, relay, inbound, swarm>>

Free == [kind |-> "free", from |-> Nobody, found |-> {}]
NoResult == [ok |-> FALSE, peers |-> {}, body |-> "none"]

TypeOK ==
  /\ at \in [Calls -> {"idle", "waiting", "returned", "abandoned"}]
  /\ op \in [Calls -> AllOps]
  /\ leg \in [Calls -> 1..2]
  /\ saved \in [Calls -> SUBSET Peers]
  /\ oneshot \in [Calls -> SUBSET Reply]
  /\ result \in [Calls -> [ok: BOOLEAN, peers: SUBSET Peers, body: Bodies]]
  /\ handle \in BOOLEAN
  /\ chaff \in {"off", "sleeping", "asking", "told"}
  /\ queue \in Seq([kind: CommandKinds, from: Owners])
  /\ loop \in {"running", "stopped"}
  /\ pending \in [Kinds -> [Ids -> Owners \cup {Nobody}]]
  /\ collected \in [Ids -> SUBSET Peers]
  /\ relay \in [Ids -> Inbound \cup {Nobody}]
  /\ inbound \in [Inbound -> {"unseen", "open", "answered", "lost"}]
  /\ swarm \in [Ids -> [kind: Kinds \cup {"free", "closed"},
                        from: Owners \cup {Nobody}, found: SUBSET Peers]]

Init ==
  /\ at = [c \in Calls |-> "idle"]
  /\ op = [c \in Calls |-> "known_peers"]
  /\ leg = [c \in Calls |-> 1]
  /\ saved = [c \in Calls |-> {}]
  /\ oneshot = [c \in Calls |-> {}]
  /\ result = [c \in Calls |-> NoResult]
  /\ handle = TRUE
  /\ \E e \in ChaffEnabled : chaff = IF e THEN "sleeping" ELSE "off"
  /\ queue = <<>>
  /\ loop = "running"
  /\ pending = [k \in Kinds |-> [i \in Ids |-> Nobody]]
  /\ collected = [i \in Ids |-> {}]
  /\ relay = [i \in Ids |-> Nobody]
  /\ inbound = [b \in Inbound |-> "unseen"]
  /\ swarm = [i \in Ids |-> Free]

-----------------------------------------------------------------------------
(***************************************************************************)
(* The callers.                                                            *)
(***************************************************************************)

(* The calls in flight borrow the handle, and the handle and the chaff     *)
(* task each hold a sender of the queue: the loop runs while either exists *)
(* (SendersKeepLoop), so `send` never fails.                               *)
Invoke(c, o) ==
  /\ handle
  /\ at[c] = "idle"
  /\ at' = [at EXCEPT ![c] = "waiting"]
  /\ op' = [op EXCEPT ![c] = o]
  /\ queue' = Append(queue, [kind |-> Command(o, 1), from |-> c])
  /\ UNCHANGED <<leg, saved, oneshot, result, handle, chaff, loop, loopVars>>

Dial ==
  /\ handle
  /\ \A n \in 1..Len(queue) : queue[n].kind # "DialAddr"  \* bound: one queued
  /\ queue' = Append(queue, [kind |-> "DialAddr", from |-> NoReceiver])
  /\ UNCHANGED <<callVars, oneshot, handle, chaff, loop, loopVars>>

(* The caller drops the future, as tokio::time::timeout does around most   *)
(* calls of the programs: the receiver goes, the sender stays where it is. *)
Abandon(c) ==
  /\ at[c] = "waiting"
  /\ at' = [at EXCEPT ![c] = "abandoned"]
  /\ oneshot' = [oneshot EXCEPT ![c] = {}]
  /\ saved' = [saved EXCEPT ![c] = {}]
  /\ UNCHANGED <<op, leg, result, handle, chaff, queue, loop, loopVars>>

(* start_providing and get_providers go on with a second command when the  *)
(* first one succeeded.                                                    *)
TwoLegs(c) == op[c] \in {"start_providing", "get_providers"} /\ leg[c] = 1

ContinueCall(c) ==
  /\ at[c] = "waiting"
  /\ TwoLegs(c)
  /\ \E r \in oneshot[c] :
       /\ r.ok
       /\ saved' = [saved EXCEPT ![c] = r.peers]
  /\ oneshot' = [oneshot EXCEPT ![c] = {}]
  /\ leg' = [leg EXCEPT ![c] = 2]
  /\ queue' = Append(queue, [kind |-> Command(op[c], 2), from |-> c])
  /\ UNCHANGED <<at, op, result, handle, chaff, loop, loopVars>>

(* Faulty: the reply itself is handed on, unlooked at.                     *)
OutcomeUnchecked(c, r) == r

(* Faulty: the reply is awaited and ignored, `let _ = reply_rx.await`.     *)
OutcomeIgnored(c, r) == [ok |-> TRUE, body |-> "none", peers |-> {}]

(* get_providers hands out what its first command found when the           *)
(* announcement verifies, and also when there is no announcement at all.   *)
(* request_block checks the data against the CID the response names.  The  *)
(* other methods pass on what they get; only its success is kept here.     *)
Outcome(c, r) ==
  CASE op[c] = "get_providers" /\ leg[c] = 2 ->
         [ok |-> TRUE, body |-> r.body,
          peers |-> IF ~r.ok \/ r.body = "signed" THEN saved[c] ELSE {}]
    [] op[c] = "request_block" ->
         [ok |-> r.ok /\ r.body \in {"block", "foreign"}, body |-> r.body,
          peers |-> {}]
    [] OTHER -> [ok |-> r.ok, body |-> "none", peers |-> {}]

Return(c) ==
  /\ at[c] = "waiting"
  /\ \E r \in oneshot[c] :
       /\ ~(TwoLegs(c) /\ r.ok)
       /\ result' = [result EXCEPT ![c] = Outcome(c, r)]
  /\ at' = [at EXCEPT ![c] = "returned"]
  /\ oneshot' = [oneshot EXCEPT ![c] = {}]
  /\ saved' = [saved EXCEPT ![c] = {}]
  /\ UNCHANGED <<op, leg, handle, chaff, queue, loop, loopVars>>

(* A call borrows the handle until it returns or its future is dropped.    *)
DropHandle ==
  /\ handle
  /\ \A c \in Calls : at[c] # "waiting"
  /\ handle' = FALSE
  /\ UNCHANGED <<callVars, oneshot, chaff, queue, loop, loopVars>>

-----------------------------------------------------------------------------
(***************************************************************************)
(* The chaff task.  It ends only when a send fails.                        *)
(***************************************************************************)
ChaffAsk ==
  /\ chaff = "sleeping"
  /\ IF loop = "running"
     THEN /\ chaff' = "asking"
          /\ queue' = Append(queue, [kind |-> "KnownPeers", from |-> Chaff])
     ELSE /\ chaff' = "off"
          /\ UNCHANGED queue
  /\ UNCHANGED <<callVars, oneshot, handle, loop, loopVars>>

ChaffSend ==
  /\ chaff = "told"
  /\ chaff' = "sleeping"
  /\ queue' = Append(queue, [kind |-> "SendBlockRequest", from |-> NoReceiver])
  /\ UNCHANGED <<callVars, oneshot, handle, loop, loopVars>>

-----------------------------------------------------------------------------
(***************************************************************************)
(* The loop takes a command: process_command.                              *)
(***************************************************************************)

(* Sending on a oneshot whose receiver is gone has no effect.              *)
Deliver(o, r) ==
  oneshot' = IF o \in Calls /\ at[o] = "waiting"
             THEN [oneshot EXCEPT ![o] = @ \cup {r}]
             ELSE oneshot

Error(o, k) ==
  [ok |-> FALSE, of |-> o, kind |-> k, peers |-> {}, body |-> "none"]

(* Faulty: the command is looked at and left in the queue.                 *)
TakeCommandKept(k) ==
  /\ loop = "running"
  /\ queue # <<>>
  /\ Head(queue).kind = k
  /\ UNCHANGED queue

TakeCommand(k) ==
  /\ loop = "running"
  /\ queue # <<>>
  /\ Head(queue).kind = k
  /\ queue' = Tail(queue)

(* The ids libp2p hands out are never reused; a token is used again here   *)
(* only when nothing runs under it.                                        *)
StartQuery(k) ==
  /\ TakeCommand(k)
  /\ \E i \in Ids :
       /\ swarm[i].kind = "free"
       /\ swarm' = [swarm EXCEPT ![i] =
                     [kind |-> k, from |-> Head(queue).from, found |-> {}]]
       /\ pending' = [pending EXCEPT ![k][i] = Head(queue).from]
  /\ UNCHANGED <<callVars, oneshot, handle, chaff, loop,
                 collected, relay, inbound>>

(* Faulty: the error arm drops the sender without a reply.                 *)
RefuseQuerySilently(k) ==
  /\ k \in {"ListenOn", "PutRecord", "StartProviding"}
  /\ TakeCommand(k)
  /\ UNCHANGED <<callVars, oneshot, handle, chaff, loop, loopVars>>

(* swarm.listen_on, kademlia.put_record and start_providing can fail.      *)
RefuseQuery(k) ==
  /\ k \in {"ListenOn", "PutRecord", "StartProviding"}
  /\ TakeCommand(k)
  /\ Deliver(Head(queue).from, Error(Head(queue).from, k))
  /\ UNCHANGED <<callVars, handle, chaff, loop, loopVars>>

AnswerKnownPeers(ps) ==
  /\ TakeCommand("KnownPeers")
  /\ Deliver(Head(queue).from,
             [ok |-> TRUE, of |-> Head(queue).from, kind |-> "KnownPeers",
              peers |-> ps, body |-> "none"])
  /\ chaff' = IF Head(queue).from # Chaff THEN chaff
              ELSE IF ps = {} THEN "sleeping" ELSE "told"
  /\ UNCHANGED <<callVars, handle, loop, loopVars>>

ProcessDial ==
  /\ TakeCommand("DialAddr")
  /\ UNCHANGED <<callVars, oneshot, handle, chaff, loop, loopVars>>

-----------------------------------------------------------------------------
(***************************************************************************)
(* The loop takes a swarm event: process_event, process_kad_result and     *)
(* process_rr_event.  Which event comes next is the network's choice.      *)
(***************************************************************************)
Runs(i, k) == loop = "running" /\ swarm[i].kind = k

Answer(i, ps, b) ==
  [ok |-> TRUE, of |-> swarm[i].from, kind |-> swarm[i].kind,
   peers |-> ps, body |-> b]

Failure(i) == Error(swarm[i].from, swarm[i].kind)

(* Faulty: whichever entry the map yields is taken, not the one under id.  *)
RemoveAnyAndReply(k, i, r) ==
  \E j \in Ids :
    /\ pending[k][j] # Nobody
    /\ pending' = [pending EXCEPT ![k][j] = Nobody]
    /\ Deliver(pending[k][j], r)

(* `if let Some(reply) = pending_k.remove(&id) { reply.send(r).ok(); }`    *)
RemoveAndReply(k, i, r) ==
  /\ pending' = [pending EXCEPT ![k][i] = Nobody]
  /\ Deliver(pending[k][i], r)

Ended(i) == swarm' = [swarm EXCEPT ![i] = Free]

(* One event per interface address; only the first finds a sender.         *)
NewListenAddr(i) ==
  /\ Runs(i, "ListenOn")
  /\ RemoveAndReply("ListenOn", i, Answer(i, {}, "none"))
  /\ UNCHANGED <<callVars, handle, chaff, queue, loop,
                 collected, relay, inbound, swarm>>

(* ListenerClosed and ListenerError fall into the last arm, `_ => {}`.     *)
ListenerClosed(i) ==
  /\ Runs(i, "ListenOn")
  /\ swarm' = [swarm EXCEPT ![i].kind = "closed"]
  /\ UNCHANGED <<callVars, oneshot, handle, chaff, queue, loop,
                 pending, collected, relay, inbound>>

(* The first record found answers; the query goes on looking for others.   *)
FoundRecord(i, b) ==
  /\ Runs(i, "GetRecord")
  /\ RemoveAndReply("GetRecord", i, Answer(i, {}, b))
  /\ UNCHANGED <<callVars, handle, chaff, queue, loop,
                 collected, relay, inbound, swarm>>

(* Faulty: the end of the query falls into `_ => {}`.                      *)
GetRecordEndsSilently(i) ==
  /\ Runs(i, "GetRecord")
  /\ Ended(i)
  /\ UNCHANGED <<callVars, oneshot, handle, chaff, queue, loop,
                 pending, collected, relay, inbound>>

(* FinishedWithNoAdditionalRecord, or an error such as the timeout.        *)
GetRecordEnds(i) ==
  /\ Runs(i, "GetRecord")
  /\ RemoveAndReply("GetRecord", i, Failure(i))
  /\ Ended(i)
  /\ UNCHANGED <<callVars, handle, chaff, queue, loop,
                 collected, relay, inbound>>

(* A put whose quorum failed was stored locally and counts as done.        *)
StoreQueryEnds(k, i, ok) ==
  /\ k \in {"PutRecord", "StartProviding"}
  /\ Runs(i, k)
  /\ RemoveAndReply(k, i, IF ok THEN Answer(i, {}, "none") ELSE Failure(i))
  /\ Ended(i)
  /\ UNCHANGED <<callVars, handle, chaff, queue, loop,
                 collected, relay, inbound>>

FoundProviders(i, ps) ==
  /\ Runs(i, "GetProviders")
  /\ swarm' = [swarm EXCEPT ![i].found = @ \cup ps]
  /\ collected' = IF pending["GetProviders"][i] = Nobody THEN collected
                  ELSE [collected EXCEPT ![i] = @ \cup ps]
  /\ UNCHANGED <<callVars, oneshot, handle, chaff, queue, loop,
                 pending, relay, inbound>>

(* Faulty: only the last event's providers are handed out.                 *)
LastProvidersOnly(i, ps) ==
  /\ Runs(i, "GetProviders")
  /\ RemoveAndReply("GetProviders", i, Answer(i, ps, "none"))
  /\ collected' = [collected EXCEPT ![i] = {}]
  /\ Ended(i)
  /\ UNCHANGED <<callVars, handle, chaff, queue, loop, relay, inbound>>

(* The event with step.last, which may carry providers of its own, answers *)
(* with everything collected.                                              *)
LastProviders(i, ps) ==
  /\ Runs(i, "GetProviders")
  /\ RemoveAndReply("GetProviders", i, Answer(i, collected[i] \cup ps, "none"))
  /\ collected' = [collected EXCEPT ![i] = {}]
  /\ Ended(i)
  /\ UNCHANGED <<callVars, handle, chaff, queue, loop, relay, inbound>>

GetProvidersFails(i) ==
  /\ Runs(i, "GetProviders")
  /\ RemoveAndReply("GetProviders", i, Failure(i))
  /\ collected' = [collected EXCEPT ![i] = {}]
  /\ Ended(i)
  /\ UNCHANGED <<callVars, handle, chaff, queue, loop, relay, inbound>>

(* Faulty: the channel stays in the map.                                   *)
RelayReturnsKept(i) ==
  /\ Runs(i, "SendBlockRequest")
  /\ relay[i] # Nobody
  /\ inbound' = [inbound EXCEPT ![relay[i]] = "answered"]
  /\ Ended(i)
  /\ UNCHANGED <<callVars, oneshot, handle, chaff, queue, loop,
                 pending, collected, relay>>

(* Faulty: the channel is removed and dropped.                             *)
RelayReturnsDropped(i) ==
  /\ Runs(i, "SendBlockRequest")
  /\ relay[i] # Nobody
  /\ relay' = [relay EXCEPT ![i] = Nobody]
  /\ Ended(i)
  /\ UNCHANGED <<callVars, oneshot, handle, chaff, queue, loop,
                 pending, collected, inbound>>

(* A response or an outbound failure to a request this node relayed: the   *)
(* response, or DontHave, goes back on the channel it came from.           *)
RelayReturns(i) ==
  /\ Runs(i, "SendBlockRequest")
  /\ relay[i] # Nobody
  /\ inbound' = [inbound EXCEPT ![relay[i]] = "answered"]
  /\ relay' = [relay EXCEPT ![i] = Nobody]
  /\ Ended(i)
  /\ UNCHANGED <<callVars, oneshot, handle, chaff, queue, loop,
                 pending, collected>>

(* A response to, or the outbound failure of, a request of this node.      *)
RequestReturns(i, r) ==
  /\ Runs(i, "SendBlockRequest")
  /\ relay[i] = Nobody
  /\ RemoveAndReply("SendBlockRequest", i, r)
  /\ Ended(i)
  /\ UNCHANGED <<callVars, handle, chaff, queue, loop,
                 collected, relay, inbound>>

Responded(i, b) == RequestReturns(i, Answer(i, {}, b))

(* Faulty: the failure of a request is not reported to the caller.         *)
OutboundFailureSilent(i) ==
  /\ Runs(i, "SendBlockRequest")
  /\ relay[i] = Nobody
  /\ Ended(i)
  /\ UNCHANGED <<callVars, oneshot, handle, chaff, queue, loop,
                 pending, collected, relay, inbound>>

OutboundFailure(i) == RequestReturns(i, Failure(i))

(* Every request that is answered in the event handler itself, an onion    *)
(* packet for this node or one it cannot peel or route included.           *)
AnswerInbound(b) ==
  /\ loop = "running"
  /\ inbound[b] = "unseen"
  /\ inbound' = [inbound EXCEPT ![b] = "answered"]
  /\ UNCHANGED <<callVars, oneshot, handle, chaff, queue, loop,
                 pending, collected, relay, swarm>>

(* handle_onion_forward with an inner packet: sent on, the channel parked. *)
RelayOnion(b) ==
  /\ loop = "running"
  /\ inbound[b] = "unseen"
  /\ \E i \in Ids :
       /\ swarm[i].kind = "free"
       /\ swarm' = [swarm EXCEPT ![i] =
                     [kind |-> "SendBlockRequest", from |-> NoReceiver,
                      found |-> {}]]
       /\ relay' = [relay EXCEPT ![i] = b]
  /\ inbound' = [inbound EXCEPT ![b] = "open"]
  /\ UNCHANGED <<callVars, oneshot, handle, chaff, queue, loop,
                 pending, collected>>

(* What ends with the task.                                                *)
DropLoop ==
  /\ loop' = "stopped"
  /\ pending' = [k \in Kinds |-> [i \in Ids |-> Nobody]]
  /\ collected' = [i \in Ids |-> {}]
  /\ relay' = [i \in Ids |-> Nobody]
  /\ inbound' = [b \in Inbound |-> IF inbound[b] = "open" THEN "lost"
                                   ELSE inbound[b]]
  /\ swarm' = [i \in Ids |-> Free]
  /\ UNCHANGED <<callVars, oneshot, handle, chaff, queue>>

(* Faulty: the loop watches the handle and forgets the chaff task.         *)
StopLoopWithHandle ==
  /\ loop = "running"
  /\ queue = <<>>
  /\ ~handle
  /\ DropLoop

(* Faulty: the loop waits for the swarm to be idle.                        *)
StopLoopWhenIdle ==
  /\ loop = "running"
  /\ queue = <<>>
  /\ ~handle
  /\ chaff = "off"
  /\ \A i \in Ids : swarm[i].kind = "free"
  /\ DropLoop

(* recv() gives None once the queue is empty and its last sender is gone;  *)
(* the maps, the channels in them and the swarm are dropped with the task. *)
StopLoop ==
  /\ loop = "running"
  /\ queue = <<>>
  /\ ~handle
  /\ chaff = "off"
  /\ DropLoop

-----------------------------------------------------------------------------
CallerStep(c) == ContinueCall(c) \/ Return(c)

ChaffStep == ChaffAsk \/ ChaffSend

CommandStep ==
  \/ \E k \in Kinds : StartQuery(k) \/ RefuseQuery(k)
  \/ \E ps \in SUBSET Peers : AnswerKnownPeers(ps)
  \/ ProcessDial
  \/ StopLoop

QueryEnds(i) ==
  \/ GetRecordEnds(i)
  \/ \E k \in Kinds, ok \in BOOLEAN : StoreQueryEnds(k, i, ok)
  \/ \E ps \in SUBSET Peers : LastProviders(i, ps)
  \/ GetProvidersFails(i)
  \/ RelayReturns(i)
  \/ \E b \in ResponseBodies : Responded(i, b)
  \/ OutboundFailure(i)

QueryProgresses(i) ==
  \/ NewListenAddr(i)
  \/ ListenerClosed(i)
  \/ \E b \in RecordBodies : FoundRecord(i, b)
  \/ \E ps \in SUBSET Peers : FoundProviders(i, ps)

Next ==
  \/ \E c \in Calls : (\E o \in Ops : Invoke(c, o)) \/ Abandon(c) \/ CallerStep(c)
  \/ Dial \/ DropHandle
  \/ ChaffStep
  \/ CommandStep
  \/ \E i \in Ids : QueryEnds(i) \/ QueryProgresses(i)
  \/ \E b \in Inbound : AnswerInbound(b) \/ RelayOnion(b)

Spec == Init /\ [][Next]_vars

(***************************************************************************)
(* The runtime polls every task that is woken, and select! chooses between *)
(* events and commands at random, so neither starves.  Kademlia gives up a *)
(* query after five minutes (line 423) and request-response a request      *)
(* after its own timeout, so every query ends.  An open listener reports   *)
(* an address unless it closes first.  Nothing else is promised: no caller *)
(* has to call, give up or drop the handle.                                *)
(***************************************************************************)
Fairness ==
  /\ \A c \in Calls : WF_vars(CallerStep(c))
  /\ WF_vars(ChaffStep)
  /\ WF_vars(CommandStep)
  /\ \A i \in Ids : WF_vars(QueryEnds(i)) /\ WF_vars(NewListenAddr(i))

FairSpec == Spec /\ Fairness

-----------------------------------------------------------------------------
(***************************************************************************)
(* Properties.                                                             *)
(***************************************************************************)

Queued(c, k) ==
  \E n \in 1..Len(queue) : queue[n].from = c /\ queue[n].kind = k

QueryKind(i) == IF swarm[i].kind = "closed" THEN "ListenOn" ELSE swarm[i].kind

(* Where the sending half of a call's oneshot is, or the reply it sent.    *)
Places(c) ==
  {<<"queue", n>> : n \in {m \in 1..Len(queue) : queue[m].from = c}}
    \cup {p \in Kinds \X Ids : pending[p[1]][p[2]] = c}
    \cup {<<"reply", r>> : r \in oneshot[c]}

(* A call that waits has its sender or its reply in exactly one place: no  *)
(* reply is lost, none is sent twice, and an overwritten map entry or a    *)
(* sender dropped on some error path would show.  A call that is over, or  *)
(* was never made, has none left behind; an abandoned one at most one.     *)
ReplyHeldOnce ==
  \A c \in Calls :
    /\ at[c] = "waiting" => \E p \in Places(c) : Places(c) = {p}
    /\ at[c] \in {"idle", "returned"} => Places(c) = {}
    /\ at[c] = "abandoned" => \A p, q \in Places(c) : p = q

(* What a call finds in its oneshot is the answer to the command it waits  *)
(* for, the second one included, and never to another call's.              *)
AnswersOwnCommand ==
  \A c \in Calls : \A r \in oneshot[c] :
    r.of = c /\ r.kind = Command(op[c], leg[c])

(* An entry of a pending map belongs to a query that still runs and was    *)
(* started for that sender, so the maps hold no entry that nothing will    *)
(* remove.  The entries of closed listeners are the exception.             *)
EntriesHaveQueries ==
  \A k \in Kinds, i \in Ids :
    pending[k][i] # Nobody =>
      /\ swarm[i].from = pending[k][i]
      /\ swarm[i].kind = k \/ (k = "ListenOn" /\ swarm[i].kind = "closed")

(* The commands are carried out once: no call has two queries of a kind,   *)
(* nor one whose command is still queued.                                  *)
OneQueryPerCommand ==
  \A c \in Calls :
    /\ \A i, j \in Ids :
         swarm[i].from = c /\ swarm[j].from = c /\ QueryKind(i) = QueryKind(j)
           => i = j
    /\ \A i \in Ids, k \in CommandKinds :
         swarm[i].from = c /\ QueryKind(i) = k => ~Queued(c, k)

(* A relayed request holds its channel under exactly one id until it is    *)
(* answered, and that id never also answers a call of this node.           *)
RelayHeldOnce ==
  /\ \A b \in Inbound :
       inbound[b] = "open" <=> \E i \in Ids : relay[i] = b
  /\ \A i \in Ids : relay[i] # Nobody =>
       /\ \A j \in Ids : relay[j] = relay[i] => i = j
       /\ swarm[i].kind = "SendBlockRequest"
       /\ pending["SendBlockRequest"][i] = Nobody

(* The loop outlives every sender of its queue, so `send` cannot fail, and *)
(* every call that waits, so "node yanit vermedi" is never its answer.     *)
SendersKeepLoop ==
  loop = "stopped" =>
    ~handle /\ chaff = "off" /\ \A c \in Calls : at[c] # "waiting"

(* The list get_providers receives leaves out nothing the query reported   *)
(* over its steps.                                                         *)
ProvidersComplete ==
  [][\A c \in Calls, i \in Ids :
       swarm[i].kind = "GetProviders" /\ pending["GetProviders"][i] = c =>
         \A r \in oneshot'[c] \ oneshot[c] :
           r.ok => swarm[i].found \subseteq r.peers]_vars

(* Every call comes back or is given up, except a listen_on whose listener *)
(* closes before it has reported an address.                               *)
CallsReturn ==
  \A c \in Calls :
    at[c] = "waiting" ~>
      \/ at[c] # "waiting"
      \/ \E i \in Ids : swarm[i].kind = "closed" /\ pending["ListenOn"][i] = c

(* Every relayed request is answered, or dropped with the loop.            *)
RelaysReturn == \A b \in Inbound : inbound[b] = "open" ~> inbound[b] # "open"

(* Without the chaff task the loop ends when the handle is dropped.        *)
LoopEndsWithoutChaff == ~handle /\ chaff = "off" ~> loop = "stopped"

(* "NodeHandle dropped - loop'u bitir" (line 643): the loop ends when the  *)
(* handle is dropped.                                                      *)
LoopEnds == ~handle ~> loop = "stopped"

(* request_block verifies the CID it asked for (lines 296-298).            *)
BlockIsRequested ==
  \A c \in Calls :
    at[c] = "returned" /\ op[c] = "request_block" /\ result[c].ok =>
      result[c].body = "block"

-----------------------------------------------------------------------------
(***************************************************************************)
(* The inductive invariant behind them.  A call's sender is in the queue,  *)
(* in a pending map, or used up, and each part says what that excludes.    *)
(***************************************************************************)
QueuedOnce ==
  \A m, n \in 1..Len(queue) :
    queue[m].from \in Calls /\ queue[n].from = queue[m].from => m = n

QueuedOwn ==
  \A c \in Calls, k \in CommandKinds : Queued(c, k) =>
    /\ at[c] \in {"waiting", "abandoned"}
    /\ k = Command(op[c], leg[c])
    /\ oneshot[c] = {}
    /\ \A l \in Kinds, i \in Ids : pending[l][i] # c

PendingOwn ==
  \A c \in Calls, k \in Kinds, i \in Ids : pending[k][i] = c =>
    /\ at[c] \in {"waiting", "abandoned"}
    /\ k = Command(op[c], leg[c])
    /\ oneshot[c] = {}
    /\ \A l \in Kinds, j \in Ids : pending[l][j] = c => l = k /\ j = i

Held ==
  \A c \in Calls : at[c] = "waiting" /\ oneshot[c] = {} =>
    \/ \E k \in CommandKinds : Queued(c, k)
    \/ \E k \in Kinds, i \in Ids : pending[k][i] = c

RepliedOnce ==
  \A c \in Calls :
    /\ at[c] # "waiting" => oneshot[c] = {}
    /\ \A r, s \in oneshot[c] : r = s

QueriesOwn ==
  \A c \in Calls, i \in Ids : swarm[i].from = c =>
    /\ at[c] # "idle"
    /\ \/ QueryKind(i) = Command(op[c], leg[c])
       \/ QueryKind(i) = Command(op[c], 1)

LegsOnlyOfTwo ==
  \A c \in Calls :
    leg[c] = 2 => at[c] # "idle" /\ op[c] \in {"start_providing", "get_providers"}

Serving ==
  /\ handle \/ chaff # "off" => loop = "running"
  /\ \A c \in Calls : at[c] = "waiting" => handle

IInv ==
  /\ TypeOK
  /\ QueuedOnce /\ QueuedOwn
  /\ PendingOwn /\ EntriesHaveQueries
  /\ Held /\ RepliedOnce /\ AnswersOwnCommand
  /\ QueriesOwn /\ OneQueryPerCommand /\ LegsOnlyOfTwo
  /\ RelayHeldOnce
  /\ Serving

-----------------------------------------------------------------------------
(***************************************************************************)
(* The node as its callers see it (CallService): a call is answered when   *)
(* its command was, stranded when its listener closed.                     *)
(***************************************************************************)
Stranded(c) ==
  \E i \in Ids : swarm[i].kind = "closed" /\ pending["ListenOn"][i] = c

Answered == {c \in Calls : /\ at[c] = "waiting"
                           /\ leg[c] = 2 \/ \E r \in oneshot[c] : r.ok}

Phase == [c \in Calls |-> IF at[c] = "waiting" /\ Stranded(c)
                          THEN "stranded" ELSE at[c]]

Succeeded == {c \in Calls : at[c] = "returned" /\ result[c].ok}

Service == INSTANCE CallService
  WITH phase <- Phase, answered <- Answered, succeeded <- Succeeded,
       open <- handle

(* Every behaviour of the node is one of CallService, seen through Phase,  *)
(* Answered and Succeeded: an abandoned call stays abandoned whatever      *)
(* answer comes late, and no call succeeds unanswered.                     *)
ImplementsService == Service!Spec
=============================================================================
