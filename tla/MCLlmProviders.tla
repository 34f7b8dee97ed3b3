---------------------------- MODULE MCLlmProviders ----------------------------
(* Instances of LlmProviders for TLC. *)
EXTENDS LlmProviders, TLC

Symmetric == Permutations(Endpoints)
=============================================================================
