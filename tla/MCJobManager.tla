--------------------------- MODULE MCJobManager ---------------------------
(* The job manager with two connections and as many streams; see the cfgs. *)
EXTENDS JobManager, TLC
Symmetry == Permutations(Conns) \cup Permutations(StreamIds)
=============================================================================
