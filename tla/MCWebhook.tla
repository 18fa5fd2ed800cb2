------------------------------ MODULE MCWebhook ------------------------------
(* Instances of WebhookDispatch for TLC. *)
EXTENDS WebhookDispatch

CONSTANTS redis

OneStore == [r \in Requests |-> redis]
=============================================================================
