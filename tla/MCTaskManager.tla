--------------------------- MODULE MCTaskManager ---------------------------
(***************************************************************************)
(* TaskManager on small instances.  Tasks and clients are model values that *)
(* the specification only compares, so both sets are symmetric.            *)
(***************************************************************************)
EXTENDS TaskManager, TLC

Symmetry == Permutations(Tasks) \cup Permutations(Clients)
============================================================================
