--------------------------- MODULE MCBatchRender ---------------------------
(***************************************************************************)
(* BatchRender on small instances.                                         *)
(***************************************************************************)
EXTENDS BatchRender

\* Batches of two items; under requests at any moment those of one source.
MCShapes == {<<"busy", 1, 2>>, <<"faulty", 1, 2>>, <<"faulty", 2, 1>>}
============================================================================
