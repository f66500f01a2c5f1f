----------------------------- MODULE MCSidecar -----------------------------
(***************************************************************************)
(* Sidecar on small instances.                                             *)
(***************************************************************************)
EXTENDS Sidecar

\* A child that reports progress, reaped when nobody calls; and one that answers
\* every request with one frame, unloaded at any moment.
ReapedAndUnloaded ==
    {[ops |-> {"synth"}, cold |-> 1, bare |-> FALSE, calls |-> 2],
     [ops |-> {"ping", "synth"}, cold |-> 0, bare |-> TRUE, calls |-> 2]}
============================================================================
