---------------------------- MODULE CallService ----------------------------
(***************************************************************************)
(* What NodeHandle promises its callers, whatever the node does inside: a  *)
(* call that was made ends once, returned, given up or stranded; it gives  *)
(* success only if the node answered it; and the handle goes only when no  *)
(* call is open.                                                           *)
(***************************************************************************)
CONSTANT Calls

VARIABLES
  phase,     \* each call: "idle", "waiting", "returned", "abandoned", "stranded"
  answered,  \* the open calls the node has answered with success
  succeeded, \* the calls that returned success
  open       \* TRUE until the handle is dropped

vars == <<phase, answered, succeeded, open>>

TypeOK ==
  /\ phase \in [Calls -> {"idle", "waiting", "returned", "abandoned", "stranded"}]
  /\ answered \subseteq Calls
  /\ succeeded \subseteq Calls
  /\ open \in BOOLEAN

Init ==
  /\ phase = [c \in Calls |-> "idle"]
  /\ answered = {}
  /\ succeeded = {}
  /\ open = TRUE

Invoke(c) ==
  /\ open
  /\ phase[c] = "idle"
  /\ phase' = [phase EXCEPT ![c] = "waiting"]
  /\ UNCHANGED <<answered, succeeded, open>>

Answer(c) ==
  /\ phase[c] = "waiting"
  /\ answered' = answered \cup {c}
  /\ UNCHANGED <<phase, succeeded, open>>

(* A call returns with success only if it was answered.                    *)
Return(c) ==
  /\ phase[c] = "waiting"
  /\ phase' = [phase EXCEPT ![c] = "returned"]
  /\ answered' = answered \ {c}
  /\ \/ c \in answered /\ succeeded' = succeeded \cup {c}
     \/ UNCHANGED succeeded
  /\ UNCHANGED open

(* What the call waits for went away without an answer.                    *)
Strand(c) ==
  /\ phase[c] = "waiting"
  /\ c \notin answered
  /\ phase' = [phase EXCEPT ![c] = "stranded"]
  /\ UNCHANGED <<answered, succeeded, open>>

Cancel(c) ==
  /\ phase[c] \in {"waiting", "stranded"}
  /\ phase' = [phase EXCEPT ![c] = "abandoned"]
  /\ answered' = answered \ {c}
  /\ UNCHANGED <<succeeded, open>>

Close ==
  /\ open
  /\ \A c \in Calls : phase[c] \notin {"waiting", "stranded"}
  /\ open' = FALSE
  /\ UNCHANGED <<phase, answered, succeeded>>

Next ==
  \/ \E c \in Calls : Invoke(c) \/ Answer(c) \/ Return(c) \/ Strand(c) \/ Cancel(c)
  \/ Close

Spec == Init /\ [][Next]_vars
=============================================================================
