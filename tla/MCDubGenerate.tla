--------------------------- MODULE MCDubGenerate ---------------------------
(***************************************************************************)
(* DubGenerate on a small instance.                                        *)
(***************************************************************************)
EXTENDS DubGenerate, TLC

\* Languages are alike, and so are texts that are not blank.
Symmetry == Permutations(Langs) \cup Permutations(Texts \ {Blank})
============================================================================
