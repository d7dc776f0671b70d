------------------------- MODULE MCDocumentPipeline -------------------------
(* DocumentPipeline for TLC: task ids are interchangeable. *)
EXTENDS DocumentPipeline, TLC

JobSymmetry == Permutations(Jobs)
=============================================================================
