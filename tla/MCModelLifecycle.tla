------------------------- MODULE MCModelLifecycle -------------------------
(***************************************************************************)
(* ModelLifecycle on small instances.                                      *)
(***************************************************************************)
EXTENDS ModelLifecycle
============================================================================
