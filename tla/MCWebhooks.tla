----------------------------- MODULE MCWebhooks -----------------------------
(* Instances of Webhooks for TLC. *)
EXTENDS Webhooks
CONSTANTS d1, d2, w1, w2, w3
=============================================================================
