----------------------------- MODULE MCDubJob -----------------------------
(***************************************************************************)
(* DubJob on small instances.                                              *)
(***************************************************************************)
EXTENDS DubJob
============================================================================
