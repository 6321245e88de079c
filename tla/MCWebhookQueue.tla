--------------------------- MODULE MCWebhookQueue ---------------------------
(* The webhook queue on a small instance: a store with two old claims. *)
EXTENDS WebhookQueue

OldClaims == <<"p", "q">>
=============================================================================
