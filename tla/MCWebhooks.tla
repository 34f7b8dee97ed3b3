------------------------------ MODULE MCWebhooks ------------------------------
(* Instance of Webhooks for TLC. *)
EXTENDS Webhooks
=============================================================================
