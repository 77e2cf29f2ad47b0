--------------------------- MODULE MCReplication ---------------------------
(* Replication on small sets, for TLC.                                     *)
EXTENDS Replication, TLC

Symmetry == Permutations(Tasks)
=============================================================================
