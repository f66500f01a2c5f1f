-------------------------- MODULE MCModelInstall --------------------------
(***************************************************************************)
(* ModelInstall on small instances.                                        *)
(***************************************************************************)
EXTENDS ModelInstall

\* Installs one at a time, with a hash or ranges; overlapping installs
\* with both.
MCRegimes ==
    {<<TRUE, TRUE, FALSE>>, <<TRUE, FALSE, TRUE>>, <<FALSE, TRUE, TRUE>>}

\* Three in turn: one leaves a manifest, the next a stream, the third resumes.
MCMaxStarts == [a \in BOOLEAN |-> IF a THEN 3 ELSE 2]

\* A deletion may come upon an install that runs alone; of two that overlap
\* nothing is claimed once there was one.
MCMaxDeletes == [a \in BOOLEAN |-> IF a THEN 1 ELSE 0]
============================================================================
