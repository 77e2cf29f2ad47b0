----------------------------- MODULE BlockStore -----------------------------
(***************************************************************************)
(* FsBlockStore of alternet-core/src/content.rs: one file per block, under *)
(* the block's CID, in a directory that several tasks use at once: the     *)
(* fetches and publications of the browser, the CLI runs and the node that *)
(* share a data directory.  Nothing locks the directory, and a file is     *)
(* written by truncating it and then filling it.                           *)
(*                                                                         *)
(* A CID stands for its bytes, so a file is absent, torn (not the bytes of *)
(* its name) or whole.  Every block has size 1, a torn file size 0.        *)
(***************************************************************************)
EXTENDS Naturals, FiniteSets

CONSTANTS
  Blocks,      \* the CIDs of the instance
  Tasks,       \* the tasks that may put blocks at the same time
  Quota,       \* the quota in blocks the programs open it with, 0 for none
  Unmetered,   \* the tasks of the browser, which opens it without a quota
  MaxCrashes   \* bound: how often a process is killed

ASSUME StoreAssumption ==
  /\ IsFiniteSet(Blocks)
  /\ IsFiniteSet(Tasks)
  /\ Quota \in Nat
  /\ Unmetered \subseteq Tasks
  /\ MaxCrashes \in Nat

VARIABLES
  files,    \* the state of each block's file
  job,      \* what each task does: [at, block]
  linked,   \* the writing tasks whose open file still has the block's name
  torn,     \* the blocks whose file lost its writer half-way
  crashes   \* how many processes were killed so far

storeVars == <<files, job, linked, torn, crashes>>

Whole == {b \in Blocks : files[b] = "whole"}

(* total_size: other tasks may add files while it walks the directory, so  *)
(* its sum is that of some moment of the walk; the walk is one step here.  *)
Used == Cardinality(Whole)

Writes(t, b) == job[t].at = "writing" /\ job[t].block = b

StoreTypeOK ==
  /\ files \in [Blocks -> {"absent", "torn", "whole"}]
  /\ job \in [Tasks -> [at: {"idle", "opening", "writing"}, block: Blocks]]
  /\ linked \in SUBSET Tasks
  /\ torn \in SUBSET Blocks
  /\ crashes \in 0..MaxCrashes

StoreInit ==
  /\ files = [b \in Blocks |-> "absent"]
  /\ \E b \in Blocks : job = [t \in Tasks |-> [at |-> "idle", block |-> b]]
  /\ linked = {}
  /\ torn = {}
  /\ crashes = 0

-----------------------------------------------------------------------------
(***************************************************************************)
(* put, in three steps with an await between each: the checks, the open    *)
(* that truncates, the write.  A put of a block whose file exists returns  *)
(* at once, whatever the file holds, and one over the quota fails: neither *)
(* changes anything.                                                       *)
(***************************************************************************)
Missing(b) == files[b] = "absent"

(* Faulty: off by one.                                                     *)
FitsQuotaLoosely(t) == Quota > 0 /\ t \notin Unmetered => Used <= Quota

FitsQuota(t) == Quota > 0 /\ t \notin Unmetered => Used + 1 <= Quota

(* Faulty: the file is created before the quota is looked at.              *)
PutChecksAfterCreating(t, b) ==
  /\ job[t].at = "idle"
  /\ files[b] = "absent"
  /\ IF FitsQuotaLoosely(t)
     THEN job' = [job EXCEPT ![t] = [at |-> "opening", block |-> b]]
     ELSE UNCHANGED job
  /\ files' = [files EXCEPT ![b] = "torn"]
  /\ UNCHANGED <<linked, torn, crashes>>

PutChecks(t, b) ==
  /\ job[t].at = "idle"
  /\ Missing(b)
  /\ FitsQuota(t)
  /\ job' = [job EXCEPT ![t] = [at |-> "opening", block |-> b]]
  /\ UNCHANGED <<files, linked, torn, crashes>>

(* The file may exist by now: it is truncated again.                       *)
PutOpens(t) ==
  /\ job[t].at = "opening"
  /\ files' = [files EXCEPT ![job[t].block] = "torn"]
  /\ job' = [job EXCEPT ![t].at = "writing"]
  /\ linked' = linked \cup {t}
  /\ UNCHANGED <<torn, crashes>>

(* The bytes go to the file that was opened, also when gc has unlinked it. *)
PutWrites(t) ==
  /\ job[t].at = "writing"
  /\ job' = [job EXCEPT ![t].at = "idle"]
  /\ IF t \in linked
     THEN /\ files' = [files EXCEPT ![job[t].block] = "whole"]
          /\ torn' = torn \ {job[t].block}
     ELSE UNCHANGED <<files, torn>>
  /\ linked' = linked \ {t}
  /\ UNCHANGED crashes

(* The process of a task is killed: what it was writing stays as it is.    *)
TaskCrashes(t) ==
  /\ crashes < MaxCrashes
  /\ crashes' = crashes + 1
  /\ job[t].at # "idle"
  /\ job' = [job EXCEPT ![t].at = "idle"]
  /\ torn' = IF t \in linked /\ files[job[t].block] = "torn"
             THEN torn \cup {job[t].block} ELSE torn
  /\ linked' = linked \ {t}
  /\ UNCHANGED files

(* delete removes the name; whoever has the file open writes on into it.   *)
Unlink(b) ==
  /\ files' = [files EXCEPT ![b] = "absent"]
  /\ linked' = {t \in linked : job[t].block # b}
  /\ torn' = torn \ {b}

PutSteps(t) == PutOpens(t) \/ PutWrites(t)

StoreNext ==
  \E t \in Tasks : \/ \E b \in Blocks : PutChecks(t, b)
                   \/ PutSteps(t)
                   \/ TaskCrashes(t)

-----------------------------------------------------------------------------
(* A file is torn only while a put is between its truncation and its       *)
(* write, or because such a put was killed: two puts of the same block and *)
(* a sweep in between leave no other trace.                                *)
TornExplained ==
  \A b \in Blocks : files[b] = "torn" =>
    b \in torn \/ \E t \in linked : Writes(t, b)

(* The quota is checked before the write, so puts that run at the same     *)
(* time can exceed it, but by no more than one block for each but one, as  *)
(* long as every program has the quota.                                    *)
QuotaOverrun ==
  Quota > 0 /\ Unmetered = {} => Used < Quota + Cardinality(Tasks)
=============================================================================
