--------------------------- MODULE MCConfigRefresh ---------------------------
(* Instances of ConfigRefresh for TLC. *)
EXTENDS ConfigRefresh, TLC

Symmetric == Permutations(Threads)
=============================================================================
