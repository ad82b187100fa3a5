---------------------------- MODULE MCPublication ----------------------------
(* The publication of the snapshots, once or twice over the same names.    *)
EXTENDS Publication
=============================================================================
