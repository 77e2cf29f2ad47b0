------------------------------- MODULE Fetch -------------------------------
(***************************************************************************)
(* How a site gets into the block store and out again: the breadth-first   *)
(* download of the CLI (fetch_dag_blocks), of the browser (do_fetch_site)  *)
(* and of the node (seed_site), each a loop of its own over one queue of   *)
(* CIDs, and the extraction that follows in the first two (extract_dag of  *)
(* alternet-core/src/content.rs).  The CLI's pin downloads like its fetch, *)
(* but then collects the CIDs it announces (collect_all_cids).  All run at *)
(* the same time in one store.                                             *)
(*                                                                         *)
(* The CLI stops at the first error; the other two go on without the block *)
(* and ignore what put says.  Blocks name their children by hash, so the   *)
(* links are a DAG.                                                        *)
(***************************************************************************)
EXTENDS BlockStore, Sequences, SequencesExt

CONSTANTS
  Root,     \* the root CID of the manifest
  MaxQueue  \* bound: how long a block that was not asked for can make a queue

ASSUME FetchAssumption ==
  /\ Root \in Blocks
  /\ MaxQueue \in Nat

VARIABLES
  links,   \* the children of each block
  program, \* what each task runs: "cli" (fetch), "pin" (of the CLI),
           \*   "browser", "node", "none"
  at,      \* each task: "idle", "walking", "reading", "asking", "storing",
           \*   "extracting", "done"; "idle" also after an error
  todo,    \* the queue of the download, the stack of the extraction or
           \*   collection
  passed,  \* the blocks the download went on without
  got      \* the blocks the extraction read, or the pin is to hold: those the
           \*   node met (all_cids), those the CLI collected

fetchVars == <<links, program, at, todo, passed, got>>
vars == <<storeVars, fetchVars>>

(* What can be reached from a set of blocks: the least set around it that  *)
(* is closed under links.                                                  *)
Closed(S) == \A b \in S : links[b] \subseteq S

Below(S) ==
  LET closures == {C \in SUBSET Blocks : S \subseteq C /\ Closed(C)}
  IN  {b \in Blocks : \A C \in closures : b \in C}

Site == Below({Root})

(* The browser alone opens the store without a quota.                      *)
Programs(t) ==
  IF t \in Unmetered THEN {"browser"} ELSE {"cli", "pin", "node"}

(* Those that stop at the first error of the download.                     *)
Strict == {"cli", "pin"}

Downloading == {"walking", "reading", "asking", "storing"}

TypeOK ==
  /\ StoreTypeOK
  /\ links \in [Blocks -> SUBSET Blocks]
  /\ program \in [Tasks -> {"cli", "pin", "browser", "node", "none"}]
  /\ at \in [Tasks -> Downloading \cup {"idle", "extracting", "done"}]
  /\ todo \in [Tasks -> Seq(Blocks)]
  /\ \A t \in Tasks : at[t] \in Downloading \ {"walking"} => todo[t] # <<>>
  /\ \A t \in Tasks : at[t] = "storing" <=> job[t].at # "idle"
  /\ passed \in [Tasks -> SUBSET Blocks]
  /\ got \in [Tasks -> SUBSET Blocks]

(* Any DAG: no block is below its own children.                            *)
Init ==
  /\ StoreInit
  /\ links \in [Blocks -> SUBSET Blocks]
  /\ \A b \in Blocks : b \notin Below(links[b])
  /\ program = [t \in Tasks |-> "none"]
  /\ at = [t \in Tasks |-> "idle"]
  /\ todo = [t \in Tasks |-> <<>>]
  /\ passed = [t \in Tasks |-> {}]
  /\ got = [t \in Tasks |-> {}]

-----------------------------------------------------------------------------
(* A fetch begins, or is tried again, with the root alone in its queue.    *)
Start(t, p) ==
  /\ at[t] = "idle"
  /\ program' = [program EXCEPT ![t] = p]
  /\ at' = [at EXCEPT ![t] = "walking"]
  /\ todo' = [todo EXCEPT ![t] = <<Root>>]
  /\ UNCHANGED <<storeVars, links, passed, got>>

Current(t) == Head(todo[t])

Children(b) == SetToSeq(links[b])

(* store.has: the file exists, whatever it holds.                          *)
Look(t) ==
  /\ at[t] = "walking"
  /\ todo[t] # <<>>
  /\ at' = [at EXCEPT ![t] = IF files[Current(t)] = "absent" THEN "asking"
                                                            ELSE "reading"]
  /\ UNCHANGED <<storeVars, links, program, todo, passed, got>>

(* The node will pin and announce the block it asked for, whichever came.  *)
Pins(t) ==
  got' = [got EXCEPT ![t] = IF program[t] = "node" THEN @ \cup {Current(t)}
                                                   ELSE @]

(* The download goes on: with the children of block d, and without the     *)
(* blocks of `lost`.                                                       *)
GoOn(t, d, lost) ==
  /\ at' = [at EXCEPT ![t] = "walking"]
  /\ todo' = [todo EXCEPT ![t] = Tail(@) \o Children(d)]
  /\ passed' = [passed EXCEPT ![t] = @ \cup lost]
  /\ Pins(t)
  /\ UNCHANGED program

Skip(t) ==
  /\ at' = [at EXCEPT ![t] = "walking"]
  /\ todo' = [todo EXCEPT ![t] = Tail(@)]
  /\ passed' = [passed EXCEPT ![t] = @ \cup {Current(t)}]
  /\ UNCHANGED program

(* The program returns its error, or is killed, and its queue is gone.     *)
Forget(t) ==
  /\ program' = [program EXCEPT ![t] = "none"]
  /\ at' = [at EXCEPT ![t] = "idle"]
  /\ todo' = [todo EXCEPT ![t] = <<>>]
  /\ passed' = [passed EXCEPT ![t] = {}]
  /\ got' = [got EXCEPT ![t] = {}]

(* Faulty: a block that is there already is taken to have its children.    *)
ReadShallow(t) ==
  /\ at[t] = "reading"
  /\ at' = [at EXCEPT ![t] = "walking"]
  /\ todo' = [todo EXCEPT ![t] = Tail(@)]
  /\ UNCHANGED <<storeVars, links, program, passed, got>>

(* A block in the store: its children are queued if it can be read, and if *)
(* it cannot all three programs go on as if it had none.                   *)
Read(t) ==
  /\ at[t] = "reading"
  /\ IF files[Current(t)] = "whole" THEN GoOn(t, Current(t), {})
                                    ELSE Skip(t) /\ Pins(t)
  /\ UNCHANGED <<storeVars, links>>

(* The answer of a provider.  request_block accepts any block that matches *)
(* the CID in the response, so d may not be the one that was asked for, as *)
(* often as a peer likes; MaxQueue alone bounds what then is queued.       *)
Stray(t, d) ==
  /\ d # Current(t)
  /\ Len(todo[t]) - 1 + Cardinality(links[d]) <= MaxQueue

Answers(t, d) == at[t] = "asking" /\ (d = Current(t) \/ Stray(t, d))

Lost(t, d) == IF d = Current(t) THEN {} ELSE {Current(t)}

(* put finds a file of that name and returns.                              *)
AnswerKnown(t, d) ==
  /\ Answers(t, d)
  /\ ~Missing(d)
  /\ GoOn(t, d, Lost(t, d))
  /\ UNCHANGED <<storeVars, links>>

(* Faulty: put is spawned and not awaited.                                 *)
AnswerDetached(t, d) ==
  /\ Answers(t, d)
  /\ PutChecks(t, d)
  /\ GoOn(t, d, Lost(t, d))
  /\ UNCHANGED links

AnswerStored(t, d) ==
  /\ Answers(t, d)
  /\ PutChecks(t, d)
  /\ at' = [at EXCEPT ![t] = "storing"]
  /\ UNCHANGED <<links, program, todo, passed, got>>

(* put fails with QuotaExceeded: the CLI stops, the others go on.          *)
AnswerRefused(t, d) ==
  /\ Answers(t, d)
  /\ Missing(d)
  /\ ~FitsQuota(t)
  /\ IF program[t] \in Strict THEN Forget(t) ELSE GoOn(t, d, {Current(t)})
  /\ UNCHANGED <<storeVars, links>>

Opens(t) == PutOpens(t) /\ UNCHANGED fetchVars

Stored(t) ==
  /\ PutWrites(t)
  /\ GoOn(t, job[t].block, Lost(t, job[t].block))
  /\ UNCHANGED <<links>>

(* Faulty: asks again until somebody answers.                              *)
UnansweredRetries(t) ==
  /\ at[t] = "asking"
  /\ IF program[t] \in Strict THEN Forget(t)
     ELSE /\ at' = [at EXCEPT ![t] = "walking"]
          /\ UNCHANGED <<program, todo, passed, got>>
  /\ UNCHANGED <<storeVars, links>>

(* No provider is found, or none of them gives the block in time.          *)
Unanswered(t) ==
  /\ at[t] = "asking"
  /\ IF program[t] \in Strict THEN Forget(t) ELSE Skip(t) /\ UNCHANGED got
  /\ UNCHANGED <<storeVars, links>>

(* The node pins and announces what it met; pin collects what to announce; *)
(* the others extract the site.                                            *)
WalkEnds(t) ==
  /\ at[t] = "walking"
  /\ todo[t] = <<>>
  /\ at' = [at EXCEPT ![t] = IF program[t] = "node" THEN "done" ELSE "extracting"]
  /\ todo' = [todo EXCEPT ![t] = IF program[t] = "node" THEN <<>> ELSE <<Root>>]
  /\ UNCHANGED <<storeVars, links, program, passed, got>>

(* Faulty: a block that cannot be read is left out of the output.          *)
ExtractLeniently(t) ==
  /\ at[t] = "extracting"
  /\ todo[t] # <<>>
  /\ IF files[Current(t)] = "whole"
     THEN /\ todo' = [todo EXCEPT ![t] = Children(Current(t)) \o Tail(@)]
          /\ got' = [got EXCEPT ![t] = @ \cup {Current(t)}]
     ELSE /\ todo' = [todo EXCEPT ![t] = Tail(@)]
          /\ UNCHANGED got
  /\ UNCHANGED <<storeVars, links, program, at, passed>>

(* extract_dag_keyed reads depth first and fails at the first block that   *)
(* is not there or does not verify.                                        *)
Extract(t) ==
  /\ at[t] = "extracting"
  /\ program[t] # "pin"
  /\ todo[t] # <<>>
  /\ IF files[Current(t)] = "whole"
     THEN /\ todo' = [todo EXCEPT ![t] = Children(Current(t)) \o Tail(@)]
          /\ got' = [got EXCEPT ![t] = @ \cup {Current(t)}]
          /\ UNCHANGED <<program, at, passed>>
     ELSE Forget(t)
  /\ UNCHANGED <<storeVars, links>>

(* collect_all_cids takes a block that is not there for one without        *)
(* children, and fails at one that does not verify.                        *)
Collect(t) ==
  /\ at[t] = "extracting"
  /\ program[t] = "pin"
  /\ todo[t] # <<>>
  /\ IF files[Current(t)] = "torn" THEN Forget(t)
     ELSE /\ todo' = [todo EXCEPT ![t] =
               (IF files[Current(t)] = "whole" THEN Children(Current(t))
                                               ELSE <<>>) \o Tail(@)]
          /\ got' = [got EXCEPT ![t] = @ \cup {Current(t)}]
          /\ UNCHANGED <<program, at, passed>>
  /\ UNCHANGED <<storeVars, links>>

ExtractEnds(t) ==
  /\ at[t] = "extracting"
  /\ todo[t] = <<>>
  /\ at' = [at EXCEPT ![t] = "done"]
  /\ UNCHANGED <<storeVars, links, program, todo, passed, got>>

(* The process is killed in its put; elsewhere it leaves nothing behind.   *)
Crashes(t) ==
  /\ TaskCrashes(t)
  /\ Forget(t)
  /\ UNCHANGED <<links>>

-----------------------------------------------------------------------------
Step(t) ==
  \/ Look(t) \/ Read(t)
  \/ \E d \in Blocks : AnswerKnown(t, d) \/ AnswerStored(t, d) \/ AnswerRefused(t, d)
  \/ Unanswered(t)
  \/ Opens(t) \/ Stored(t)
  \/ WalkEnds(t) \/ Extract(t) \/ Collect(t) \/ ExtractEnds(t)

Next ==
  \E t \in Tasks : \/ \E p \in Programs(t) : Start(t, p)
                   \/ Step(t)
                   \/ Crashes(t)

Spec == Init /\ [][Next]_vars

(* A fetch that runs goes on: every call of the node it makes has a        *)
(* timeout.  Nobody has to start one.                                      *)
Fairness == \A t \in Tasks : WF_vars(Step(t))

-----------------------------------------------------------------------------
Present == {b \in Blocks : files[b] # "absent"}

(* The download forgets nothing: every block of the site is in the store,  *)
(* below what is queued, or below a block the download knows it went on    *)
(* without.  The queue has no memory of what was visited, and other tasks  *)
(* fill the store meanwhile.                                               *)
DownloadCovers ==
  \A t \in Tasks :
    /\ at[t] \in Downloading =>
         Site \subseteq Present \cup Below(ToSet(todo[t])) \cup Below(passed[t])
    /\ at[t] \in {"extracting", "done"} =>
         Site \subseteq Present \cup Below(passed[t])

(* An extraction that succeeds has read every block of the site, whatever  *)
(* the download before it left out.  A pin that succeeds, the CLI's or the *)
(* node's, holds the whole site but for what is below blocks the download  *)
(* went on without.                                                        *)
ExtractsAll ==
  \A t \in Tasks : at[t] = "done" =>
    /\ program[t] \in {"cli", "browser"} => got[t] = Site
    /\ program[t] \in {"pin", "node"} => Site \subseteq got[t] \cup Below(passed[t])

(* A provider answers t with a block it was not asked for.                 *)
Misled(t) ==
  /\ at[t] = "asking"
  /\ \E d \in Blocks \ {Current(t)} :
       AnswerKnown(t, d) \/ AnswerStored(t, d) \/ AnswerRefused(t, d)

(* Every fetch that was started comes to an end, unless its providers keep *)
(* sending it other blocks than it asks for: the loops have no limit and   *)
(* do not know which blocks they have been at, so those can feed the queue *)
(* for ever.                                                               *)
FetchEnds ==
  \A t \in Tasks :
    \/ []<><<Misled(t)>>_vars
    \/ at[t] \in Downloading \cup {"extracting"} ~> at[t] \in {"idle", "done"}
=============================================================================
