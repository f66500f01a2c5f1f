----------------------------- MODULE MCGpuPool -----------------------------
(***************************************************************************)
(* GpuPool on small instances.                                             *)
(***************************************************************************)
EXTENDS GpuPool
============================================================================
