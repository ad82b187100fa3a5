------------------------------ MODULE MCCutover ------------------------------
(***************************************************************************)
(* Instances of Cutover for TLC, and its refinement of AtomicCutover.      *)
(***************************************************************************)
EXTENDS Cutover, TLC

Symmetry == Permutations(Managed) \cup Permutations(Procs) \cup Permutations(Configs)
=============================================================================
