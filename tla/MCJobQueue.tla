----------------------------- MODULE MCJobQueue -----------------------------
(***************************************************************************)
(* JobQueue on small instances.                                            *)
(***************************************************************************)
EXTENDS JobQueue

\* Two jobs are stopped twice; a third, for two lanes that die, meets no stop.
MCMaxStops == [n \in 0..MaxSubmits |-> IF n < 3 THEN 2 ELSE 0]
============================================================================
