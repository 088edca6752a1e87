-------------------------- MODULE MCStreamManager --------------------------
(* The stream manager on a small instance; see the cfg for the bounds. *)
EXTENDS StreamManager, TLC
Symmetry == Permutations(StreamIds)
=============================================================================
