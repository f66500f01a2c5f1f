---------------------------- MODULE MCBatchQueue ----------------------------
(***************************************************************************)
(* BatchQueue on small instances.                                          *)
(***************************************************************************)
EXTENDS BatchQueue
============================================================================
