-------------------------- MODULE MCRequestSettings --------------------------
(* Instances of RequestSettings for TLC. *)
EXTENDS RequestSettings, TLC

Symmetric == Permutations(Requests) \cup Permutations(Repos)
=============================================================================
