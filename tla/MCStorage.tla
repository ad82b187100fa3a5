----------------------------- MODULE MCStorage ------------------------------
(* Two callers of the collector over three hours of two days.              *)
EXTENDS StorageSeries

Symmetry == Permutations(Jobs)
=============================================================================
