----------------------------- MODULE MCNodeLoop -----------------------------
(* NodeLoop on small sets, for TLC.                                        *)
EXTENDS NodeLoop, TLC

(* Calls, ids, channels and peers are interchangeable: no action compares  *)
(* or orders them.  Used for safety only.                                  *)
Symmetry == Permutations(Calls) \cup Permutations(Ids)
              \cup Permutations(Inbound) \cup Permutations(Peers)
=============================================================================
