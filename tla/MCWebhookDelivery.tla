------------------------- MODULE MCWebhookDelivery -------------------------
(* WebhookDelivery for TLC.  No symmetry: its run checks a liveness property. *)
EXTENDS WebhookDelivery, TLC
=============================================================================
