--------------------------- MODULE MCDocumentStore ---------------------------
(* Instances of DocumentStore for TLC.                                     *)
EXTENDS DocumentStore, TLC

Symmetry == Permutations(Requests)
=============================================================================
