-------------------------- MODULE MCPushDictionaries --------------------------
(* Instances of PushDictionaries for TLC. *)
EXTENDS PushDictionaries, TLC

Symmetric == Permutations(Keys) \cup Permutations(Tasks)
=============================================================================
