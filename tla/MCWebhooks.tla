----------------------------- MODULE MCWebhooks -----------------------------
(***************************************************************************)
(* Webhooks with names for its dispatchers, events and endpoints.          *)
(***************************************************************************)
EXTENDS Webhooks

CONSTANTS w1, w2, e1, e2, e3, p1, p2
=============================================================================
