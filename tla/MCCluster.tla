----------------------------- MODULE MCCluster -----------------------------
(* Cluster on small instances, for TLC.  No operator tells one client from *)
(* another but by what it logged, but for the tie CHOOSE breaks in Evict,  *)
(* and ops are never tied.                                                 *)
EXTENDS Cluster, TLC

\* The clients may be permuted.
Symmetry == Permutations(Client)
=============================================================================
