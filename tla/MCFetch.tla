------------------------------ MODULE MCFetch ------------------------------
(* Fetch on small sets, for TLC: a site that holds every block, the blocks *)
(* numbered so that links go up, as any DAG can be.  The block of an idle  *)
(* job is never read.                                                      *)
EXTENDS Fetch

MCInit ==
  /\ Init
  /\ Site = Blocks
  /\ \A b \in Blocks : \A c \in links[b] : b < c
  /\ \A t \in Tasks : job[t].block = Root

MCSpec == MCInit /\ [][Next]_vars /\ Fairness
=============================================================================
