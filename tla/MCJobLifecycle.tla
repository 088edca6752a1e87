--------------------------- MODULE MCJobLifecycle ---------------------------
(* The jobs of a block on a small instance: two jobs, so that a restart of the *)
(* block starts another, and two faults of any kind.                           *)
EXTENDS JobLifecycle, TLC

CONSTANTS j1, j2

Symmetry == Permutations(Jobs)
=============================================================================
