------------------------------- MODULE MCCatalog -------------------------------
(* Catalog for TLC, with the symmetry of its goroutines and materials.       *)
EXTENDS Catalog, TLC

Sym == Permutations(Procs) \cup Permutations(MatIds)
=============================================================================
